---- MODULE Spec2Model ----
(***************************************************************************)
(* Column-level lineage pipeline of lineage_sqlglot:                       *)
(*   - the lineage tracer      (gen_upstream_lineage.py)                   *)
(*   - the star expander       (expand_sql_ref.py)                         *)
(*   - the reference resolver  (create_manifest_catalog_ref.py)            *)
(*   - the catalog loader      (create_manifest_catalog_ref.py)            *)
(*   - the lineage merge       (combined_lineage_db_tableau.py)            *)
(*   - the hierarchy builder   (gen_full_lineage_db_json.py)               *)
(*                                                                         *)
(* Representation.                                                         *)
(*   A column name, alias or CTE name is a string.  A table name is the    *)
(*   sequence of its dot-separated segments (DB.SCH.RAW is                 *)
(*   <<"DB", "SCH", "RAW">>).  A "table string" (the Python str held in    *)
(*   source_table, table, current_table ...) is a non-empty sequence of    *)
(*   table names: the pieces that ', '.join puts together and              *)
(*   .split(', ') takes apart.  The empty Python string is <<<<"">>>>.     *)
(*   Python's set iteration order is not modelled: a join lists the pieces *)
(*   in one fixed order.                                                   *)
(*   An expression node of sqlglot is a record                             *)
(*     [kind, name, table, args, distinct]                                 *)
(*   kind is the sqlglot class name, args the child expressions in         *)
(*   rendering order.                                                      *)
(***************************************************************************)
EXTENDS Integers, Sequences, FiniteSets, TLC

VARIABLES
    \* ---- tracer: process_with_and_select(ast)
    ast,                \* the parsed query handed to process_with_and_select
    table_alias_map,    \* keys of the name -> name dict (every value equals its key)
    cte_definitions,    \* table string -> [order, info]
    final_columns,      \* the list of rows built so far
    main_table,         \* current_table of the outer SELECT
    t_pc,               \* position inside process_with_and_select
    t_i,                \* index of the next CTE / projection
    \* ---- star expander: main() of expand_sql_ref.py on one record
    original_sql,       \* the query handed to generate_expanded_sql
    schema,             \* json.loads(reference_str): the ReferenceMap, in key order
    parsed,             \* the AST being rewritten
    cte_columns,        \* CTE name -> column list, an insertion-ordered dict
    x_pc,               \* position inside generate_expanded_sql / main
    x_i,                \* index of the next CTE
    x_run,              \* 1: the record's SQL; 2: the expanded SQL expanded again
    expanded_sql,       \* what generate_expanded_sql returned (per run)
    EXPANDED_SQL,       \* the EXPANDED_SQL column of the record
    x_log,              \* what main printed
    x_exc,              \* the message of the exception in flight
    \* ---- resolver: replace_refs_and_sources_in_sql on one row
    r_sql,              \* the sql argument as passed
    sql,                \* the local sql
    reference_str,      \* the reference argument
    reference_data,     \* json.loads(reference_str)
    r_pc,               \* position inside the function
    r_printed,          \* what the function printed
    \* ---- loader: build_dataframe_from_manifest
    manifest_nodes,     \* manifest.json "nodes", in key order
    data,               \* the list of records built so far
    l_pc,               \* position inside the function
    l_i,                \* index of the next manifest node
    \* ---- trace_column_lineage on expression objects
    o_defs,             \* cte_definitions: per CTE the entries of its columns
    o_heap,             \* the `this` slot of every stored function node
    o_calls,            \* calls made from outside so far
    o_deepest,          \* the largest depth argument any call was made with
    o_pc,               \* "ctes", "select", "caught", "inserted", or "escaped"
    \* ---- merge: merge_lineage on one sheet
    sheet_upstreamFields, \* sheet["upstreamFields"] of the Tableau lineage
    db_lineage_data,    \* the database lineage forest
    m_pc,               \* position inside merge_lineage
    m_i,                \* index of the next upstream field
    \* ---- extract: one call of extract_source_columns_and_transformation
    e_node,             \* the expression the function is called on
    e_table,            \* current_table
    e_defs,             \* cte_definitions
    e_out,              \* what the call returned
    e_pc,               \* "call", "returned" or "raised"
    \* ---- hierarchy: gen_full_lineage_db_json.build_full_hierarchy(df)
    df,                 \* the rows read from COLUMN_LINEAGE_SQLGLOT
    full_hierarchy,     \* the trees built so far
    h_pc,               \* "rows", "written" or "raised"
    h_i                 \* index of the next row

tracerVars == <<ast, table_alias_map, cte_definitions, final_columns, main_table, t_pc, t_i>>

expanderVars == <<original_sql, schema, parsed, cte_columns, x_pc, x_i, x_run, expanded_sql, EXPANDED_SQL, x_log, x_exc>>

resolverVars == <<r_sql, sql, reference_str, reference_data, r_pc, r_printed>>

loaderVars == <<manifest_nodes, data, l_pc, l_i>>

objectVars == <<o_defs, o_heap, o_calls, o_deepest, o_pc>>

mergeVars == <<sheet_upstreamFields, db_lineage_data, m_pc, m_i>>

extractVars == <<e_node, e_table, e_defs, e_out, e_pc>>
hierarchyVars == <<df, full_hierarchy, h_pc, h_i>>

vars == <<tracerVars, expanderVars, resolverVars, loaderVars, objectVars, mergeVars, extractVars,
         hierarchyVars>>

----------------------------------------------------------------------------
(* Strings *)

EmptyStr == <<<<"">>>>
Str(n) == <<<<n>>>>
unknown == Str("unknown")
constant == Str("constant")
Unknown == Str("Unknown")

\* Python `a or b` on strings
OrElse(a, b) == IF a = EmptyStr THEN b ELSE a

Range(s) == {s[k] : k \in 1..Len(s)}

\* ', '.join(S) for a set S of names
RECURSIVE JoinNames(_)
JoinNames(S) ==
    IF S = {} THEN <<>>
    ELSE LET n == CHOOSE x \in S : TRUE IN <<n>> \o JoinNames(S \ {n})

JoinOfNames(S) == IF S = {} THEN EmptyStr ELSE JoinNames(S)

\* ', '.join(S) for a set S of table strings
RECURSIVE JoinTables(_)
JoinTables(S) ==
    IF S = {} THEN <<>>
    ELSE LET t == CHOOSE x \in S : TRUE IN t \o JoinTables(S \ {t})

JoinOfTables(S) == IF S = {} THEN EmptyStr ELSE JoinTables(S)

\* s.split(', ') as a set
SplitSet(s) == Range(s)

----------------------------------------------------------------------------
(* sqlglot expression nodes *)

Node(k, n, t, a, d) == [kind |-> k, name |-> n, table |-> t, args |-> a, distinct |-> d]

None == Node("None", "", EmptyStr, <<>>, FALSE)
\* exp.column(name, table=table) and a parsed column reference
Column(n, t) == Node("Column", n, t, <<>>, FALSE)
Col(n) == Column(n, EmptyStr)
Literal(n) == Node("Literal", n, EmptyStr, <<>>, FALSE)
Boolean(n) == Node("Boolean", n, EmptyStr, <<>>, FALSE)
Identifier(n) == Node("Identifier", n, EmptyStr, <<>>, FALSE)
Star == Node("Star", "*", EmptyStr, <<>>, FALSE)
Alias(e, a) == Node("Alias", a, EmptyStr, <<e>>, FALSE)
Unary(k, e) == Node(k, "", EmptyStr, <<e>>, FALSE)
Binary(k, l, r) == Node(k, "", EmptyStr, <<l, r>>, FALSE)
Agg(k, e, d) == Node(k, "", EmptyStr, <<e>>, d)
\* CASE: the If nodes, then the default (None when there is no ELSE)
If(c, v) == Node("If", "", EmptyStr, <<c, v>>, FALSE)
When(c, v) == Node("When", "", EmptyStr, <<c, v>>, FALSE)
Case(ifs, default) == Node("Case", "", EmptyStr, ifs \o <<default>>, FALSE)
Coalesce(a) == Node("Coalesce", "", EmptyStr, a, FALSE)
TimestampTrunc(e, unit) == Node("TimestampTrunc", unit, EmptyStr, <<e>>, FALSE)

BinaryKinds == {"EQ", "NEQ", "GT", "GTE", "LT", "LTE", "Add", "Sub", "Mul", "Div"}
AggKinds == {"Count", "Sum", "Min", "Max", "Avg"}

\* the table-qualified column references of an expression, in rendering order
RECURSIVE ColumnsOf(_)
RECURSIVE ColumnsOfList(_)
ColumnsOf(e) ==
    IF e.kind = "Column" THEN <<e>> ELSE ColumnsOfList(e.args)
ColumnsOfList(a) ==
    IF a = <<>> THEN <<>> ELSE ColumnsOf(Head(a)) \o ColumnsOfList(Tail(a))

----------------------------------------------------------------------------
(* trace_column_lineage *)

max_depth == 10

IsCte(table, defs) == table \in DOMAIN defs

\* the (table, column_node.sql()) key of the visited set
VisitKey(table, column_node) == <<table, column_node.table, column_node.name>>

RECURSIVE trace_column_lineage(_, _, _, _, _)
RECURSIVE replace_columns(_, _, _, _, _)
RECURSIVE replace_list(_, _, _, _, _)
RECURSIVE trace_sources(_, _, _, _, _)

\* Every recursive call is written once, as the argument of the operator that
\* consumes its result.

TracedNode(r) == [trans |-> r.trans, defs |-> r.defs]
Rebuilt(node, l) == [trans |-> [node EXCEPT !.args = l.args], defs |-> l.defs]

\* replace_columns(node, current_depth) of the closure; source_table, visited and
\* cte_definitions are the closure's captured variables.  Returns the rewritten node
\* and cte_definitions as left by the in-place node.set calls of the nested traces.
replace_columns(node, source_table, defs, visited, depth) ==
    IF node.kind = "Column" THEN
        TracedNode(trace_column_lineage(Column(node.name, OrElse(node.table, source_table)),
                                        OrElse(node.table, source_table),
                                        defs, visited, depth + 1))
    ELSE
        Rebuilt(node, replace_list(node.args, source_table, defs, visited, depth))

ConsNodes(h, t) == [args |-> <<h.trans>> \o t.args, defs |-> t.defs]

ReplaceTail(h, a, source_table, visited, depth) ==
    ConsNodes(h, replace_list(Tail(a), source_table, h.defs, visited, depth))

replace_list(a, source_table, defs, visited, depth) ==
    IF a = <<>> THEN [args |-> <<>>, defs |-> defs]
    ELSE ReplaceTail(replace_columns(Head(a), source_table, defs, visited, depth),
                     a, source_table, visited, depth)

UnionSources(r, rest) ==
    [cols |-> r.cols \cup rest.cols, tables |-> {r.table} \cup rest.tables,
     defs |-> rest.defs]

SourcesTail(r, cols, source_table, visited, depth) ==
    UnionSources(r, trace_sources(cols, source_table, r.defs, visited, depth))

\* the loop over source_columns at the end of trace_column_lineage
trace_sources(cols, source_table, defs, visited, depth) ==
    IF cols = {} THEN [cols |-> {}, tables |-> {}, defs |-> defs]
    ELSE SourcesTail(trace_column_lineage(Column(CHOOSE x \in cols : TRUE, source_table),
                                          source_table, defs, visited, depth + 1),
                     cols \ {CHOOSE x \in cols : TRUE}, source_table, visited, depth)

\* the entry of cte_info the walk continues from: "entry" (column in cte_info),
\* "star" ('*' in cte_info) or "none"
Lookup(cte_info, column) ==
    IF column \in DOMAIN cte_info.info THEN "entry"
    ELSE IF "*" \in DOMAIN cte_info.info THEN "star"
    ELSE "none"

\* return final_columns, ', '.join(final_tables), full_transformation
TraceResult(full_transformation, src) ==
    [cols |-> src.cols, table |-> JoinOfTables(src.tables),
     trans |-> full_transformation, defs |-> src.defs]

\* cte_definitions after replace_columns: node.set(...) rewrote the stored subtree
\* of a non-Column transformation in place
AfterReplace(full, table, column, stored) ==
    IF stored THEN [full.defs EXCEPT ![table].info[column].transformation = full.trans]
    ELSE full.defs

TraceSourcesOf(full, table, column, stored, source_columns, source_table, visited, depth) ==
    TraceResult(full.trans,
                trace_sources(source_columns, source_table,
                              AfterReplace(full, table, column, stored), visited, depth))

TraceThrough(table, column, defs, visited, depth, source_columns, source_table, current_transformation, stored) ==
    \* If source_table is same as current table and we've already visited it, stop recursion
    IF source_table = table /\ depth > 0 THEN
        [cols |-> source_columns, table |-> source_table,
         trans |-> current_transformation, defs |-> defs]
    ELSE
        TraceSourcesOf(replace_columns(current_transformation, source_table, defs,
                                       visited, depth),
                       table, column, stored, source_columns, source_table, visited, depth)

StopAt(column_node, table, defs) ==
    [cols |-> {column_node.name}, table |-> table, trans |-> column_node, defs |-> defs]

trace_column_lineage(column_node, table, defs, visited, depth) ==
    IF VisitKey(table, column_node) \in visited THEN StopAt(column_node, table, defs)
    ELSE IF depth >= max_depth THEN StopAt(column_node, table, defs)
    ELSE IF ~IsCte(table, defs) THEN StopAt(column_node, table, defs)
    ELSE IF Lookup(defs[table], column_node.name) = "entry" THEN
        TraceThrough(table, column_node.name, defs,
                     visited \cup {VisitKey(table, column_node)}, depth,
                     defs[table].info[column_node.name].source_columns,
                     defs[table].info[column_node.name].source_table,
                     defs[table].info[column_node.name].transformation,
                     defs[table].info[column_node.name].transformation.kind # "Column")
    ELSE IF Lookup(defs[table], column_node.name) = "star" THEN
        TraceThrough(table, column_node.name, defs,
                     visited \cup {VisitKey(table, column_node)}, depth,
                     {column_node.name}, defs[table].info["*"].source_table,
                     column_node, FALSE)
    ELSE StopAt(column_node, table, defs)

----------------------------------------------------------------------------
(* extract_source_columns_and_transformation *)

\* the tables 'unknown' and 'constant' are discarded, the rest joined;
\* an empty rest gives current_table or "unknown"
FilteredJoin(names, current_table) ==
    LET kept == names \ {<<"unknown">>, <<"constant">>}
    IN IF kept # {} THEN JoinNames(kept) ELSE OrElse(current_table, unknown)

RECURSIVE extract_source_columns_and_transformation(_, _, _)
RECURSIVE extract_each(_, _, _)

NoOperands(defs, raised) ==
    [cols |-> {}, names |-> {}, tables |-> <<>>, trans |-> <<>>, defs |-> defs,
     raised |-> raised]

ConsOperand(h, t) ==
    [cols |-> h.cols \cup t.cols, names |-> SplitSet(h.table) \cup t.names,
     tables |-> <<h.table>> \o t.tables, trans |-> <<h.trans>> \o t.trans,
     defs |-> t.defs, raised |-> t.raised]

EachTail(h, nodes, current_table) ==
    IF h.raised THEN NoOperands(h.defs, TRUE)
    ELSE ConsOperand(h, extract_each(Tail(nodes), h.defs, current_table))

\* the calls the function makes on a list of sub-expressions, in order: the source
\* columns united, the pieces of the returned tables united, the rewritten nodes
extract_each(nodes, defs, current_table) ==
    IF nodes = <<>> THEN NoOperands(defs, FALSE)
    ELSE EachTail(extract_source_columns_and_transformation(Head(nodes), defs, current_table),
                  nodes, current_table)

Present(nodes) == SelectSeq(nodes, LAMBDA n : n.kind # "None")

\* the When nodes rebuilt from the rewritten (condition, value) pairs
RECURSIVE WhenPairs(_)
WhenPairs(trans) ==
    IF Len(trans) < 2 THEN <<>>
    ELSE <<When(trans[1], trans[2])>> \o WhenPairs(SubSeq(trans, 3, Len(trans)))

\* the conditions and values of the If nodes, flattened in evaluation order
RECURSIVE IfParts(_)
IfParts(ifs) ==
    IF ifs = <<>> THEN <<>>
    ELSE <<Head(ifs).args[1], Head(ifs).args[2]>> \o IfParts(Tail(ifs))

Raise(defs) == [cols |-> {}, trans |-> None, table |-> EmptyStr, defs |-> defs, raised |-> TRUE]

\* the sub-expressions the function recurses on, in call order
Operands(node) ==
    IF node.kind \in {"Paren", "Cast"} \cup BinaryKinds THEN node.args
    ELSE IF node.kind \in AggKinds \cup {"Coalesce", "TimestampTrunc"} THEN Present(node.args)
    ELSE IF node.kind = "Case" THEN
        IfParts(SubSeq(node.args, 1, Len(node.args) - 1))
        \o Present(<<node.args[Len(node.args)]>>)
    ELSE <<>>

Extracted(cols, trans, table, defs) ==
    [cols |-> cols, trans |-> trans, table |-> table, defs |-> defs, raised |-> FALSE]

FromTrace(t) == Extracted(t.cols, t.trans, t.table, t.defs)

\* the branches that rebuild a node from its rewritten operands r
Reconstruct(node, current_table, r) ==
    IF r.raised THEN Raise(r.defs)
    ELSE IF node.kind \in {"Paren", "Cast"} THEN
        Extracted(r.cols, [node EXCEPT !.args = r.trans], r.tables[1], r.defs)
    ELSE IF node.kind \in BinaryKinds THEN
        Extracted(r.cols, Binary(node.kind, r.trans[1], r.trans[2]),
                  IF Range(r.tables) \ {unknown, constant} # {}
                  THEN JoinTables(Range(r.tables) \ {unknown, constant})
                  ELSE OrElse(current_table, unknown),
                  r.defs)
    ELSE IF node.kind \in AggKinds THEN
        Extracted(r.cols,
                  Agg(node.kind, IF r.trans # <<>> THEN r.trans[1] ELSE None, node.distinct),
                  FilteredJoin(r.names, current_table), r.defs)
    ELSE IF node.kind = "Case" THEN
        Extracted(r.cols,
                  Case(WhenPairs(SubSeq(r.trans, 1, 2 * (Len(node.args) - 1))),
                       IF node.args[Len(node.args)].kind = "None" THEN None
                       ELSE r.trans[Len(r.trans)]),
                  FilteredJoin(r.names, current_table), r.defs)
    ELSE IF node.kind = "Coalesce" THEN
        Extracted(r.cols, Coalesce(r.trans), FilteredJoin(r.names, current_table), r.defs)
    ELSE
        \* TimestampTrunc: without node.this the local arg_transformation is read unbound
        IF r.trans = <<>> THEN Raise(r.defs)
        ELSE Extracted(r.cols, TimestampTrunc(r.trans[1], node.name),
                       FilteredJoin(r.names, current_table), r.defs)

Reconstructed == {"Paren", "Cast", "Case", "Coalesce", "TimestampTrunc"} \cup BinaryKinds \cup AggKinds

extract_source_columns_and_transformation(node, defs, current_table) ==
    IF node.kind = "Column" THEN
        \* table_alias_map maps every key to itself: real_table_name = table_name
        FromTrace(trace_column_lineage(
                      [node EXCEPT !.table = OrElse(node.table, current_table)],
                      OrElse(node.table, current_table), defs, {}, 0))
    ELSE IF node.kind = "Identifier" THEN
        Extracted({node.name}, node, OrElse(current_table, unknown), defs)
    ELSE IF node.kind \in {"Boolean", "Literal"} THEN
        Extracted({}, node, constant, defs)
    ELSE IF node.kind \in Reconstructed THEN
        Reconstruct(node, current_table, extract_each(Operands(node), defs, current_table))
    ELSE
        Extracted({}, node, OrElse(current_table, unknown), defs)

----------------------------------------------------------------------------
(* process_cte *)

\* a FROM clause: kind "Table" (this is an exp.Table), "None" (no FROM) or
\* "Other" (neither a table nor a subquery)
FromTable(catalog, db, name) == [kind |-> "Table", name |-> name, db |-> db, catalog |-> catalog]
NoFrom == [kind |-> "None", name |-> "", db |-> "", catalog |-> ""]
OtherFrom == [kind |-> "Other", name |-> "", db |-> "", catalog |-> ""]

\* source_table of process_cte: name, prefixed by db and catalog when present
QualifiedName(f) ==
    <<(IF f.catalog # "" THEN <<f.catalog>> ELSE <<>>)
      \o (IF f.db # "" THEN <<f.db>> ELSE <<>>)
      \o <<f.name>>>>

Cte(alias, kind, from, projs) == [alias |-> alias, kind |-> kind, from |-> from, projs |-> projs]

NoColumns == [order |-> <<>>, info |-> <<>>]

\* cte_columns[k] = v on an insertion-ordered dict
Put(cc, k, v) ==
    [order |-> IF k \in DOMAIN cc.info THEN cc.order ELSE Append(cc.order, k),
     info |-> (k :> v) @@ cc.info]

Info(cols, trans, table) == [source_columns |-> cols, transformation |-> trans, source_table |-> table]

\* Expression.alias_or_name of an unaliased projection
NameOf(e) ==
    IF e.kind \in {"Literal", "Identifier", "Column"} THEN e.name
    ELSE IF e.args # <<>> /\ e.args[1].kind \in {"Literal", "Identifier"} THEN e.args[1].name
    ELSE IF e.args # <<>> /\ e.args[1].kind = "Star" THEN "*"
    ELSE ""

RECURSIVE cte_projections(_, _, _, _)

\* one pass of the loop over cte.this.expressions whose branch calls extract (r)
StoreTraced(projs, source_table, cc, r, alias_name) ==
    IF r.raised THEN [cc |-> cc, defs |-> r.defs, raised |-> TRUE]
    ELSE cte_projections(Tail(projs), source_table,
                         \* We need to have an alias to store it in cte_columns
                         IF alias_name # ""
                         THEN Put(cc, alias_name, Info(r.cols, r.trans, r.table))
                         ELSE cc,
                         r.defs)

\* the loop over cte.this.expressions
cte_projections(projs, source_table, cc, defs) ==
    IF projs = <<>> THEN [cc |-> cc, defs |-> defs, raised |-> FALSE]
    ELSE IF Head(projs).kind = "Star" THEN
        cte_projections(Tail(projs), source_table,
                        Put(cc, "*", Info({"*"}, Head(projs), source_table)), defs)
    ELSE IF Head(projs).kind = "Column" THEN
        cte_projections(Tail(projs), source_table,
                        Put(cc, Head(projs).name,
                            Info({Head(projs).name}, Head(projs), source_table)), defs)
    ELSE
        StoreTraced(projs, source_table, cc,
                    extract_source_columns_and_transformation(
                        IF Head(projs).kind = "Alias" THEN Head(projs).args[1] ELSE Head(projs),
                        defs, source_table),
                    IF Head(projs).kind = "Alias" THEN Head(projs).name ELSE NameOf(Head(projs)))

CteStored(cte, tam, r) ==
    IF r.raised THEN [defs |-> r.defs, tam |-> tam, raised |-> TRUE]
    ELSE [defs |-> (Str(cte.alias) :> r.cc) @@ r.defs, tam |-> tam, raised |-> FALSE]

process_cte(cte, tam, defs) ==
    IF cte.kind # "Select" THEN
        [defs |-> (Str(cte.alias) :> NoColumns) @@ defs, tam |-> tam, raised |-> FALSE]
    ELSE
        CteStored(cte,
                  IF cte.from.kind \in {"Table", "None"} THEN tam \cup {cte.alias} ELSE tam,
                  cte_projections(cte.projs,
                                  IF cte.from.kind = "Table" THEN QualifiedName(cte.from)
                                  ELSE unknown,
                                  NoColumns, defs))

----------------------------------------------------------------------------
(* rows of final_columns *)

Text(t) == Node("Text", t, EmptyStr, <<>>, FALSE)

\* proj is the index of the outer projection the row was appended for
Row(proj, final, database, schema_name, table, cols, trans) ==
    [proj |-> proj, final |-> final, database |-> database, schema |-> schema_name,
     table |-> table, cols |-> cols, trans |-> trans]

\* the row of an except branch
ErrorRow(proj, final, what) ==
    Row(proj, final, "Unknown", "Unknown", Unknown, {"Unknown"}, Text(what))

\* extract_source_info is called by the Star and Alias branches and bound nowhere
\* in the module: the call raises NameError
extract_source_info(source_table) ==
    [raised |-> TRUE, database |-> "", schema |-> "", table |-> ""]

\* The runs of dot-joined words in the text of a transformation, in text order:
\* each piece of a column's table string, the last one followed by the column name.
RECURSIVE RunsOfColumns(_)
RunsOfColumns(cs) ==
    IF cs = <<>> THEN <<>>
    ELSE LET c == Head(cs)
             n == Len(c.table)
         IN (IF c.table = EmptyStr THEN <<<<c.name>>>>
             ELSE [k \in 1..n |-> IF k = n THEN c.table[k] \o <<c.name>> ELSE c.table[k]])
            \o RunsOfColumns(Tail(cs))

NoMatch == [database |-> "", schema |-> "", table |-> "", column |-> ""]

\* re.search(r'"?(\w+\.)?(\w+\.)?(\w+)"?\.(\w+)', transformation): the leftmost run of
\* at least two words, read as database?.schema?.table.column ("" stands for None)
extract_source_info_from_transformation(trans) ==
    LET runs == SelectSeq(RunsOfColumns(ColumnsOf(trans)), LAMBDA r : Len(r) >= 2)
    IN IF runs = <<>> THEN NoMatch
       ELSE LET r == runs[1]
            IN IF Len(r) = 2 THEN
                   [database |-> "", schema |-> "", table |-> r[1], column |-> r[2]]
               ELSE IF Len(r) = 3 THEN
                   [database |-> r[1], schema |-> "", table |-> r[2], column |-> r[3]]
               ELSE
                   [database |-> r[1], schema |-> r[2], table |-> r[3], column |-> r[4]]

----------------------------------------------------------------------------
(* process_with_and_select *)

Query(kind, ctes, from, projs) == [kind |-> kind, ctes |-> ctes, from |-> from, projs |-> projs]

\* try: ... final_columns.append({...}) except Exception: final_columns.append({...})
AliasTried(k, alias_name, r, source_info) ==
    [defs |-> r.defs,
     rows |-> IF r.raised \/ source_info.raised
              THEN <<ErrorRow(k, alias_name, "Error tracing alias")>>
              ELSE <<Row(k, alias_name, source_info.database, source_info.schema,
                         Str(source_info.table), r.cols, r.trans)>>]

AliasTraced(k, alias_name, r) == AliasTried(k, alias_name, r, extract_source_info(r.table))

\* the Alias branch
AliasRow(k, select_expr, defs, current_table) ==
    AliasTraced(k, select_expr.name,
                extract_source_columns_and_transformation(select_expr.args[1], defs,
                                                          current_table))

ColumnTried(k, name, r, source_info) ==
    [defs |-> r.defs,
     rows |-> IF r.raised
              THEN <<ErrorRow(k, name, "Error tracing expression")>>
              ELSE <<Row(k, name,
                         IF source_info.database # "" THEN source_info.database ELSE "Unknown",
                         IF source_info.schema # "" THEN source_info.schema ELSE "Unknown",
                         IF source_info.table # "" THEN Str(source_info.table) ELSE r.table,
                         IF source_info.column # "" THEN {source_info.column} ELSE r.cols,
                         r.trans)>>]

ColumnTraced(k, name, r) ==
    ColumnTried(k, name, r, extract_source_info_from_transformation(r.trans))

\* the Column branch
ColumnRow(k, select_expr, defs, current_table) ==
    ColumnTraced(k, select_expr.name,
                 extract_source_columns_and_transformation(select_expr, defs, current_table))

RECURSIVE StarRows(_, _, _, _)

StarTried(k, col, r, source_info, rest) ==
    [defs |-> rest.defs,
     rows |-> <<IF source_info.raised
                THEN ErrorRow(k, col, "Error tracing column")
                ELSE Row(k, col, source_info.database, source_info.schema,
                         Str(source_info.table), r.cols, r.trans)>> \o rest.rows]

StarTraced(k, cols, table, r) ==
    StarTried(k, Head(cols), r, extract_source_info(r.table),
              StarRows(k, Tail(cols), r.defs, table))

\* the Star branch over a CTE: one try per entry of cte_definitions[main_table]
StarRows(k, cols, defs, table) ==
    IF cols = <<>> THEN [defs |-> defs, rows |-> <<>>]
    ELSE StarTraced(k, cols, table, trace_column_lineage(Col(Head(cols)), table, defs, {}, 0))

\* the Star branch
StarRow(k, defs, table) ==
    IF table \in DOMAIN defs THEN StarRows(k, defs[table].order, defs, table)
    ELSE [defs |-> defs,
          rows |-> <<Row(k, "*", "Unknown", "Unknown", table, {"Select all columns"},
                         Text("Select all columns"))>>]

----------------------------------------------------------------------------
(* the queries the tracer is run on *)

MaxProjections == 2

RAW == FromTable("DB", "SCH", "RAW")
FromCte(n) == FromTable("", "", n)

\* WITH A AS (SELECT ... FROM DB.SCH.RAW)
CtePoolA ==
    { Cte("A", "Select", RAW, <<Col("ID")>>),
      Cte("A", "Select", RAW, <<Col("ID"), Alias(Binary("Add", Col("X"), Literal("1")), "Y")>>),
      Cte("A", "Select", RAW, <<Star>>),
      Cte("A", "Select", RAW, <<Alias(Literal("1"), "ONE"), Literal("2")>>),
      Cte("A", "Select", RAW, <<Alias(TimestampTrunc(None, "DAY"), "T")>>),
      Cte("A", "Select", FromCte("B"), <<Col("ID")>>),
      Cte("A", "Union", NoFrom, <<>>) }

\* ..., B AS (SELECT ... FROM A)
CtePoolB ==
    { Cte("B", "Select", FromCte("A"), <<Col("ID")>>),
      Cte("B", "Select", FromCte("A"), <<Col("FOO")>>),
      Cte("B", "Select", FromCte("A"), <<Alias(Col("ID"), "I")>>),
      Cte("B", "Select", FromCte("A"), <<Alias(Unary("Upper", Col("Y")), "U")>>),
      Cte("B", "Select", OtherFrom, <<Col("ID")>>) }

CteLists ==
    {<<>>} \cup {<<a>> : a \in CtePoolA} \cup {<<a, b>> : a \in CtePoolA, b \in CtePoolB}

ProjectionPool ==
    { Col("ID"), Col("FOO"), Col("U"), Column("ID", Str("A")),
      Alias(Col("ID"), "CUSTOMER_ID"), Alias(Literal("1"), "X"),
      Alias(TimestampTrunc(None, "DAY"), "T"),
      Literal("1"), Binary("Add", Col("ID"), Literal("1")),
      Star }

SeqsUpTo(S, n) == UNION {[1..k -> S] : k \in 1..n}

\* the outer FROM: a declared CTE, the base table, or none
FromsOf(ctes) == {FromCte(ctes[i].alias) : i \in 1..Len(ctes)} \cup {RAW, NoFrom}

Queries ==
    { Query("Select", c, f, p) : c \in CteLists, f \in {FromCte("A"), FromCte("B"), RAW, NoFrom},
                                 p \in SeqsUpTo(ProjectionPool, MaxProjections) }
    \cup { Query("Union", <<>>, NoFrom, <<>>) }

TracerStart ==
    /\ ast \in {q \in Queries : q.kind = "Select" => q.from \in FromsOf(q.ctes)}
    /\ table_alias_map = {}
    /\ cte_definitions = <<>>
    /\ final_columns = <<>>
    /\ main_table = EmptyStr
    /\ t_pc = "ctes"
    /\ t_i = 1

CteDone(r) ==
    /\ cte_definitions' = r.defs
    /\ table_alias_map' = r.tam
    /\ IF r.raised THEN t_pc' = "raised" /\ t_i' = t_i
       ELSE t_pc' = "ctes" /\ t_i' = t_i + 1

\* for cte in with_clause.expressions: process_cte(...); an exception leaves the function
ProcessCte ==
    /\ t_pc = "ctes"
    /\ t_i <= Len(ast.ctes)
    /\ CteDone(process_cte(ast.ctes[t_i], table_alias_map, cte_definitions))
    /\ UNCHANGED <<ast, final_columns, main_table, expanderVars, resolverVars, loaderVars, objectVars, mergeVars, extractVars, hierarchyVars>>

\* if isinstance(ast, exp.Select): main_table from the FROM clause
MainFrom ==
    /\ t_pc = "ctes"
    /\ t_i > Len(ast.ctes)
    /\ IF ast.kind # "Select" THEN
           /\ t_pc' = "returned"
           /\ UNCHANGED <<table_alias_map, main_table>>
       ELSE
           /\ t_pc' = "select"
           /\ IF ast.from.kind = "Table"
              THEN /\ main_table' = Str(ast.from.name)
                   /\ table_alias_map' = table_alias_map \cup {ast.from.name}
              ELSE /\ main_table' = unknown
                   /\ UNCHANGED table_alias_map
    /\ t_i' = 1
    /\ UNCHANGED <<ast, cte_definitions, final_columns, expanderVars, resolverVars, loaderVars, objectVars, mergeVars, extractVars, hierarchyVars>>

Projecting(kinds) ==
    /\ t_pc = "select"
    /\ t_i <= Len(ast.projs)
    /\ ast.projs[t_i].kind \in kinds

\* a loop that puts the rows of a projection before the rows collected so far
EmitFirst(r) ==
    /\ cte_definitions' = r.defs
    /\ final_columns' = r.rows \o final_columns
    /\ t_i' = t_i + 1
    /\ UNCHANGED <<ast, table_alias_map, main_table, t_pc, expanderVars, resolverVars, loaderVars, objectVars, mergeVars, extractVars, hierarchyVars>>

\* final_columns.append(...) for every row of the branch taken
Emit(r) ==
    /\ cte_definitions' = r.defs
    /\ final_columns' = final_columns \o r.rows
    /\ t_i' = t_i + 1
    /\ UNCHANGED <<ast, table_alias_map, main_table, t_pc, expanderVars, resolverVars, loaderVars, objectVars, mergeVars, extractVars, hierarchyVars>>

TraceStar ==
    /\ Projecting({"Star"})
    /\ Emit(StarRow(t_i, cte_definitions, main_table))

TraceAlias ==
    /\ Projecting({"Alias"})
    /\ Emit(AliasRow(t_i, ast.projs[t_i], cte_definitions, main_table))

TraceColumn ==
    /\ Projecting({"Column"})
    /\ Emit(ColumnRow(t_i, ast.projs[t_i], cte_definitions, main_table))

\* a projection that is no Star, Alias or Column matches no branch of the loop
NoBranch ==
    /\ t_pc = "select"
    /\ t_i <= Len(ast.projs)
    /\ ast.projs[t_i].kind \notin {"Star", "Alias", "Column"}
    /\ t_i' = t_i + 1
    /\ UNCHANGED <<ast, table_alias_map, cte_definitions, final_columns, main_table, t_pc>>
    /\ UNCHANGED <<expanderVars, resolverVars, loaderVars, objectVars, mergeVars, extractVars, hierarchyVars>>

Return ==
    /\ t_pc = "select"
    /\ t_i > Len(ast.projs)
    /\ t_pc' = "returned"
    /\ UNCHANGED <<ast, table_alias_map, cte_definitions, final_columns, main_table, t_i>>
    /\ UNCHANGED <<expanderVars, resolverVars, loaderVars, objectVars, mergeVars, extractVars, hierarchyVars>>

TracerNext ==
    \/ ProcessCte
    \/ MainFrom
    \/ TraceStar
    \/ TraceAlias
    \/ TraceColumn
    \/ NoBranch
    \/ Return

TracerIdle ==
    /\ ast = Query("Union", <<>>, NoFrom, <<>>)
    /\ table_alias_map = {}
    /\ cte_definitions = <<>>
    /\ final_columns = <<>>
    /\ main_table = EmptyStr
    /\ t_pc = "idle"
    /\ t_i = 1

----------------------------------------------------------------------------
(* expand_sql_ref.py: generate_expanded_sql *)

NoSql == Query("None", <<>>, NoFrom, <<>>)

\* str.upper() on the names the queries and the reference maps are written with
upper(n) ==
    CASE n = "db" -> "DB" [] n = "sch" -> "SCH" [] n = "raw" -> "RAW"
      [] n = "other" -> "OTHER" [] n = "a" -> "A" [] n = "b" -> "B"
      [] n = "id" -> "ID" [] n = "name" -> "NAME" [] n = "n" -> "N" [] n = "x" -> "X"
      [] OTHER -> n

\* the text of an identifier: a name that is not [_a-zA-Z]\w* is quoted, its quotes doubled
identifier_sql(n) ==
    CASE n = "1" -> "\"1\""
      [] n = "\"1\"" -> "\"\"\"1\"\"\""
      [] OTHER -> n

UpperTable(t) == [i \in DOMAIN t |-> [j \in DOMAIN t[i] |-> upper(t[i][j])]]

\* an expression as parse_one reads its upper-cased text: an identifier placed in a
\* select list comes back as a column
RECURSIVE UpperNode(_)
UpperNode(e) ==
    [kind |-> IF e.kind = "Identifier" THEN "Column" ELSE e.kind,
     name |-> upper(e.name),
     table |-> UpperTable(e.table),
     args |-> [i \in DOMAIN e.args |-> UpperNode(e.args[i])],
     distinct |-> e.distinct]

UpperList(projs) == [i \in DOMAIN projs |-> UpperNode(projs[i])]

UpperFrom(f) ==
    [kind |-> f.kind, name |-> upper(f.name), db |-> upper(f.db), catalog |-> upper(f.catalog)]

UpperCte(c) ==
    [alias |-> upper(c.alias), kind |-> c.kind, from |-> UpperFrom(c.from),
     projs |-> UpperList(c.projs)]

\* parsed.sql(pretty=True).upper(), as the query that text parses to
sql_upper(q) ==
    [kind |-> q.kind,
     ctes |-> [i \in DOMAIN q.ctes |-> UpperCte(q.ctes[i])],
     from |-> UpperFrom(q.from),
     projs |-> UpperList(q.projs)]

\* ".".join(parts), kept as the sequence of its parts
get_fully_qualified_name(table_expression) ==
    (IF table_expression.catalog # "" THEN <<table_expression.catalog>> ELSE <<>>)
    \o (IF table_expression.db # "" THEN <<table_expression.db>> ELSE <<>>)
    \o (IF table_expression.name # "" THEN <<table_expression.name>> ELSE <<>>)

\* source_full in schema, schema[source_full]
SchemaKeys(s) == {s[i].key : i \in 1..Len(s)}
SchemaGet(s, k) == s[CHOOSE i \in 1..Len(s) : s[i].key = k].cols

NoCteColumns == [order |-> <<>>, cols |-> <<>>]

\* a scope that forgets the names it is given
SetNothing(d, cte_name, new_columns) == d

\* cte_columns[cte_name] = new_columns on an insertion-ordered dict
SetColumns(d, cte_name, new_columns) ==
    [order |-> IF cte_name \in Range(d.order) THEN d.order ELSE Append(d.order, cte_name),
     cols |-> [n \in DOMAIN d.cols \cup {cte_name} |->
                  IF n = cte_name THEN new_columns ELSE d.cols[n]]]

\* projection.args['table'].name
TableNameOf(projection) == projection.table[1][Len(projection.table[1])]

\* one projection of replace_star_in_select
Replaced(projection, current_cte_columns, cols) ==
    IF projection.kind = "Star" THEN
        [i \in 1..Len(current_cte_columns) |-> Identifier(current_cte_columns[i])]
    ELSE IF /\ projection.kind = "Column"
            /\ projection.table # EmptyStr
            /\ projection.name = "*"
            /\ TableNameOf(projection) \in DOMAIN cols.cols
    THEN [i \in 1..Len(cols.cols[TableNameOf(projection)]) |->
             Column(cols.cols[TableNameOf(projection)][i], Str(TableNameOf(projection)))]
    ELSE <<projection>>

RECURSIVE replace_star_in_select(_, _, _)
replace_star_in_select(expressions, current_cte_columns, cols) ==
    IF expressions = <<>> THEN <<>>
    ELSE Replaced(Head(expressions), current_cte_columns, cols)
         \o replace_star_in_select(Tail(expressions), current_cte_columns, cols)

\* projection.sql() of a projection that is neither an alias nor a column: an
\* identifier put there by the expansion, or a literal
ProjectionSql(projection) ==
    IF projection.kind = "Identifier" THEN identifier_sql(projection.name)
    ELSE projection.name

\* the names of the aliases and the columns only
RECURSIVE named_columns(_)
named_columns(expressions) ==
    IF expressions = <<>> THEN <<>>
    ELSE (IF Head(expressions).kind \in {"Alias", "Column"}
          THEN <<Head(expressions).name>> ELSE <<>>)
         \o named_columns(Tail(expressions))

\* the names recorded for a CTE after the replacement
new_columns(expressions) ==
    [i \in 1..Len(expressions) |->
        IF expressions[i].kind \in {"Alias", "Column"} THEN expressions[i].name
        ELSE ProjectionSql(expressions[i])]

Failed(cte, cols, message) == [raised |-> message, projs |-> cte.projs, cte_columns |-> cols]

Recorded(cte, cols, new_expressions) ==
    [raised |-> "",
     projs |-> new_expressions,
     cte_columns |-> SetColumns(cols, cte.alias, new_columns(new_expressions))]

ExpandFrom(cte, cols, source_columns) ==
    Recorded(cte, cols, replace_star_in_select(cte.projs, source_columns, cols))

\* the body of `for cte in with_expression.expressions`; a FROM without any table
\* (VALUES, a table function) is the "Other" source
ExpandCte(cte, sch, cols) ==
    IF cte.from.kind = "None" THEN Failed(cte, cols, "No FROM clause found in CTE")
    ELSE IF cte.from.kind # "Table" THEN Failed(cte, cols, "complex FROM clause")
    ELSE IF get_fully_qualified_name(cte.from) \in SchemaKeys(sch) THEN
        ExpandFrom(cte, cols, SchemaGet(sch, get_fully_qualified_name(cte.from)))
    ELSE IF cte.from.db = "" /\ cte.from.catalog = "" /\ cte.from.name \in DOMAIN cols.cols THEN
        ExpandFrom(cte, cols, cols.cols[cte.from.name])
    ELSE Failed(cte, cols, "Source not found in schema or previously defined CTEs")

\* the columns of the first key
first_columns_of(cols) == cols.cols[cols.order[1]]

\* list(cte_columns.keys())[-1], cte_columns.get(last_cte_name, [])
final_columns_of(cols) == cols.cols[cols.order[Len(cols.order)]]

----------------------------------------------------------------------------
(* the queries and reference maps the expander is run on *)

MaxOuterProjections == 2

raw == FromTable("db", "sch", "raw")

\* WITH a AS (SELECT ... FROM db.sch.raw)
ExpanderCtePoolA ==
    { Cte("a", "Select", raw, <<Star>>),
      Cte("a", "Select", raw, <<Col("id"), Alias(Col("name"), "n")>>),
      Cte("a", "Select", raw, <<Literal("1"), Column("*", Str("raw"))>>),
      Cte("a", "Select", raw, <<Literal("1"), Star>>),
      Cte("a", "Select", FromCte("other"), <<Star>>),
      Cte("a", "Select", FromCte("b"), <<Star>>),
      Cte("a", "Select", NoFrom, <<Literal("1")>>),
      Cte("a", "Select", OtherFrom, <<Star>>) }

\* ..., b AS (SELECT ... FROM a)
ExpanderCtePoolB ==
    { Cte("b", "Select", FromCte("a"), <<Star>>),
      Cte("b", "Select", FromCte("a"), <<Column("*", Str("a")), Col("id")>>),
      Cte("b", "Select", raw, <<Star>>),
      Cte("b", "Select", FromTable("db", "sch", "a"), <<Column("*", <<<<"sch", "a">>>>)>>) }

ExpanderCteLists ==
    {<<>>} \cup {<<a>> : a \in ExpanderCtePoolA}
    \cup {<<a, b>> : a \in ExpanderCtePoolA, b \in ExpanderCtePoolB}

OuterPool ==
    { Star, Column("*", Str("a")), Col("id"), Alias(Col("id"), "x"), Literal("1") }

\* the outer FROM: a declared CTE or the base table
OuterFroms(ctes) == {FromCte(ctes[i].alias) : i \in 1..Len(ctes)} \cup {raw}

WrittenQueries ==
    { q \in { Query("Select", c, f, p) : c \in ExpanderCteLists,
                                         f \in {FromCte("a"), FromCte("b"), raw},
                                         p \in SeqsUpTo(OuterPool, MaxOuterProjections) } :
          q.from \in OuterFroms(q.ctes) }

\* the SQL column: a query as its author wrote it, or written in upper case
ExpanderQueries == WrittenQueries \cup {sql_upper(q) : q \in WrittenQueries}

\* the REFERENCE column: the columns of db.sch.raw, keys as the catalog spells them; a
\* catalog column may have a name that is no plain identifier, and a base table (db.sch.a)
\* may have the name of a CTE
Schemas ==
    { <<[key |-> <<"db", "sch", "raw">>, cols |-> <<"id", "name">>]>>,
      <<[key |-> <<"DB", "SCH", "RAW">>, cols |-> <<"ID", "NAME">>]>>,
      <<[key |-> <<"db", "sch", "raw">>, cols |-> <<"id", "1">>]>>,
      <<[key |-> <<"db", "sch", "raw">>, cols |-> <<"id", "name">>],
        [key |-> <<"db", "sch", "a">>, cols |-> <<"x">>]>> }

----------------------------------------------------------------------------
(* main of expand_sql_ref.py, on one record *)

ExpanderStart ==
    /\ original_sql \in ExpanderQueries
    /\ schema \in Schemas
    /\ parsed = NoSql
    /\ cte_columns = NoCteColumns
    /\ x_pc = "start"
    /\ x_i = 1
    /\ x_run = 1
    /\ expanded_sql = NoSql
    /\ EXPANDED_SQL = NoSql
    /\ x_log = <<>>
    /\ x_exc = ""

ExpanderIdle ==
    /\ original_sql = NoSql
    /\ schema = <<>>
    /\ parsed = NoSql
    /\ cte_columns = NoCteColumns
    /\ x_pc = "idle"
    /\ x_i = 1
    /\ x_run = 1
    /\ expanded_sql = NoSql
    /\ EXPANDED_SQL = NoSql
    /\ x_log = <<>>
    /\ x_exc = ""

\* parsed = parse_one(original_sql); if not with_expression: raise ValueError
ParseSql ==
    /\ x_pc = "start"
    /\ parsed' = original_sql
    /\ cte_columns' = NoCteColumns
    /\ x_i' = 1
    /\ IF original_sql.ctes = <<>>
       THEN x_pc' = "raised" /\ x_exc' = "No WITH clause found in the SQL."
       ELSE x_pc' = "ctes" /\ x_exc' = ""
    /\ UNCHANGED <<original_sql, schema, x_run, expanded_sql, EXPANDED_SQL, x_log>>
    /\ UNCHANGED <<tracerVars, resolverVars, loaderVars, objectVars, mergeVars, extractVars, hierarchyVars>>

CteExpanded(r) ==
    /\ parsed' = [parsed EXCEPT !.ctes[x_i].projs = r.projs]
    /\ cte_columns' = r.cte_columns
    /\ IF r.raised # ""
       THEN x_pc' = "raised" /\ x_i' = x_i /\ x_exc' = r.raised
       ELSE x_pc' = "ctes" /\ x_i' = x_i + 1 /\ x_exc' = ""

\* one pass of `for cte in with_expression.expressions`
ExpandNextCte ==
    /\ x_pc = "ctes"
    /\ x_i <= Len(parsed.ctes)
    /\ CteExpanded(ExpandCte(parsed.ctes[x_i], schema, cte_columns))
    /\ UNCHANGED <<original_sql, schema, x_run, expanded_sql, EXPANDED_SQL, x_log>>
    /\ UNCHANGED <<tracerVars, resolverVars, loaderVars, objectVars, mergeVars, extractVars, hierarchyVars>>

FinalExpanded(new_expressions) ==
    /\ parsed' = [parsed EXCEPT !.projs = new_expressions]
    /\ expanded_sql' = sql_upper([parsed EXCEPT !.projs = new_expressions])

\* replace_star_in_select(final_select, final_columns, cte_columns); return the text
ExpandFinal ==
    /\ x_pc = "ctes"
    /\ x_i > Len(parsed.ctes)
    /\ FinalExpanded(replace_star_in_select(parsed.projs, final_columns_of(cte_columns),
                                            cte_columns))
    /\ x_pc' = "returned"
    /\ UNCHANGED <<original_sql, schema, cte_columns, x_i, x_run, EXPANDED_SQL, x_log, x_exc>>
    /\ UNCHANGED <<tracerVars, resolverVars, loaderVars, objectVars, mergeVars, extractVars, hierarchyVars>>

\* update_expanded_sql(conn, unique_key, expanded_sql); print("Updated ...")
UpdateExpandedSql ==
    /\ x_pc = "returned"
    /\ EXPANDED_SQL' = expanded_sql
    /\ x_log' = Append(x_log, "Updated expanded SQL")
    /\ x_pc' = "done"
    /\ UNCHANGED <<original_sql, schema, parsed, cte_columns, x_i, x_run, expanded_sql, x_exc>>
    /\ UNCHANGED <<tracerVars, resolverVars, loaderVars, objectVars, mergeVars, extractVars, hierarchyVars>>

\* except Exception as e: print(f"Error processing unique_key ...: {str(e)}")
ExceptError ==
    /\ x_pc = "raised"
    /\ x_log' = Append(x_log, x_exc)
    /\ x_exc' = ""
    /\ x_pc' = "done"
    /\ UNCHANGED <<original_sql, schema, parsed, cte_columns, x_i, x_run, expanded_sql,
                   EXPANDED_SQL>>
    /\ UNCHANGED <<tracerVars, resolverVars, loaderVars, objectVars, mergeVars, extractVars, hierarchyVars>>

\* generate_expanded_sql called on the text it returned, with the same reference
ExpandAgain ==
    /\ x_pc = "done"
    /\ x_run = 1
    /\ EXPANDED_SQL # NoSql
    /\ original_sql' = EXPANDED_SQL
    /\ x_run' = 2
    /\ x_pc' = "start"
    /\ expanded_sql' = NoSql
    /\ UNCHANGED <<schema, parsed, cte_columns, x_i, EXPANDED_SQL, x_log, x_exc>>
    /\ UNCHANGED <<tracerVars, resolverVars, loaderVars, objectVars, mergeVars, extractVars, hierarchyVars>>

----------------------------------------------------------------------------
(* create_manifest_catalog_ref.py: replace_refs_and_sources_in_sql *)

\* A SQL string is the sequence of its pieces: plain text, the placeholders
\* {{<space>ref(<quote>name<quote>)<space>}} and
\* {{<space>source(<quote>src<quote>, <quote>name<quote>)<space>}}, and the full
\* names put in their place.  A full name is the sequence of its dot-separated parts.
Piece(kind, text, src, space, quote, key) ==
    [kind |-> kind, text |-> text, src |-> src, space |-> space, quote |-> quote, key |-> key]

PlainText(s) == Piece("text", s, "", "", "", <<>>)
Ref(name, space, quote) == Piece("ref", name, "", space, quote, <<>>)
Source(src, name, space, quote) == Piece("source", name, src, space, quote, <<>>)
FullName(key) == Piece("name", "", "", "", "", key)

\* r"{{\s*ref\('([^']+)'\)\s*}}"
RefPattern(piece) == piece.kind = "ref" /\ piece.quote = "'"

\* r"{{\s*source\('([^']+)'\s*,\s*'([^']+)'\)\s*}}"
SourcePattern(piece) == piece.kind = "source" /\ piece.quote = "'"

\* for full_name, cols in reference_data.items(): full_name.split('.')[-1] == ref_table
RECURSIVE ref_replacer(_, _)
ref_replacer(match, items) ==
    IF items = <<>> THEN match
    ELSE IF Head(items).key[Len(Head(items).key)] = match.text THEN FullName(Head(items).key)
    ELSE ref_replacer(match, Tail(items))

\* source_replacer without `if len(parts) != 3: continue`
source_replacer_any_key(match, items) == ref_replacer(match, items)

\* for full_name, cols in reference_data.items(): len(parts) != 3 -> continue
RECURSIVE source_replacer(_, _)
source_replacer(match, items) ==
    IF items = <<>> THEN match
    ELSE IF Len(Head(items).key) # 3 THEN source_replacer(match, Tail(items))
    ELSE IF Head(items).key[3] = match.text THEN FullName(Head(items).key)
    ELSE source_replacer(match, Tail(items))

\* re.sub(pattern, ref_replacer, sql)
sub_refs(s, items) ==
    [i \in 1..Len(s) |-> IF RefPattern(s[i]) THEN ref_replacer(s[i], items) ELSE s[i]]

\* re.sub(pattern, source_replacer, sql)
sub_sources(s, items) ==
    [i \in 1..Len(s) |-> IF SourcePattern(s[i]) THEN source_replacer(s[i], items) ELSE s[i]]

\* a decoder that reads what it can and never raises
loads_lenient(s) == [raised |-> FALSE, object |-> s.json # "array", data |-> s.items]

\* json.loads(reference_str): the items of the object in key order; JSONDecodeError
\* for text that is not JSON
loads(s) == [raised |-> s.json = "invalid", object |-> s.json = "object", data |-> s.items]

----------------------------------------------------------------------------
(* the SQL strings and reference strings the resolver is run on *)

MaxPieces == 2
MaxKeys == 2

PiecePool ==
    { PlainText("select"),
      Ref("orders", " ", "'"), Ref("orders", "", "'"), Ref("orders", " ", "\""),
      Ref("customers", " ", "'"), Ref("missing", " ", "'"),
      Source("shop", "orders", " ", "'"), Source("erp", "orders", "", "'"),
      Source("shop", "customers", " ", "'"), Source("shop", "missing", " ", "'") }

\* keys as f"{database}.{schema}.{name}" builds them; a name may itself hold a dot
KeyPool ==
    { <<"db", "sch", "orders">>, <<"db2", "sch", "orders">>, <<"db", "sch", "my", "orders">>,
      <<"db", "sch", "customers">>, <<"sch", "customers">> }

Items ==
    { m \in [1..0 -> KeyPool] \cup SeqsUpTo(KeyPool, MaxKeys) :
          \A i, j \in 1..Len(m) : m[i] = m[j] => i = j }

ItemsOf(m) == [i \in 1..Len(m) |-> [key |-> m[i], cols |-> <<"id">>]]

\* the text of the REFERENCE column: a JSON object, other JSON, or no JSON at all (the
\* items are then what the text would have held)
ReferenceStrings ==
    { [json |-> j, items |-> ItemsOf(m)] : j \in {"object", "array", "invalid"}, m \in Items }

ResolverStart ==
    /\ r_sql \in SeqsUpTo(PiecePool, MaxPieces)
    /\ sql = r_sql
    /\ reference_str \in {s \in ReferenceStrings : s.json = "array" => s.items = <<>>}
    /\ reference_data = <<>>
    /\ r_pc = "start"
    /\ r_printed = <<>>

ResolverIdle ==
    /\ r_sql = <<>>
    /\ sql = <<>>
    /\ reference_str = [json |-> "object", items |-> <<>>]
    /\ reference_data = <<>>
    /\ r_pc = "idle"
    /\ r_printed = <<>>

Decoded(r) ==
    IF r.raised
    THEN /\ r_printed' = Append(r_printed, "Error decoding reference JSON")
         /\ r_pc' = "returned"
         /\ UNCHANGED reference_data
    ELSE /\ reference_data' = r.data
         /\ r_pc' = IF r.object THEN "refs" ELSE "refs_no_items"
         /\ UNCHANGED r_printed

\* try: reference_data = json.loads(reference_str) except JSONDecodeError: return sql
Loads ==
    /\ r_pc = "start"
    /\ Decoded(loads(reference_str))
    /\ UNCHANGED <<r_sql, sql, reference_str>>
    /\ UNCHANGED <<tracerVars, expanderVars, loaderVars, objectVars, mergeVars, extractVars, hierarchyVars>>

\* sql = re.sub(<ref pattern>, ref_replacer, sql)
SubRefs ==
    /\ r_pc = "refs"
    /\ sql' = sub_refs(sql, reference_data)
    /\ r_pc' = "sources"
    /\ UNCHANGED <<r_sql, reference_str, reference_data, r_printed>>
    /\ UNCHANGED <<tracerVars, expanderVars, loaderVars, objectVars, mergeVars, extractVars, hierarchyVars>>

\* sql = re.sub(<source pattern>, source_replacer, sql); return sql
SubSources ==
    /\ r_pc = "sources"
    /\ sql' = sub_sources(sql, reference_data)
    /\ r_pc' = "returned"
    /\ UNCHANGED <<r_sql, reference_str, reference_data, r_printed>>
    /\ UNCHANGED <<tracerVars, expanderVars, loaderVars, objectVars, mergeVars, extractVars, hierarchyVars>>

\* reference_data is no dict: the first replacer called raises on reference_data.items()
SubWithoutItems ==
    /\ r_pc = "refs_no_items"
    /\ r_pc' = IF \E i \in 1..Len(sql) : RefPattern(sql[i]) \/ SourcePattern(sql[i])
              THEN "raised" ELSE "returned"
    /\ UNCHANGED <<r_sql, sql, reference_str, reference_data, r_printed>>
    /\ UNCHANGED <<tracerVars, expanderVars, loaderVars, objectVars, mergeVars, extractVars, hierarchyVars>>

----------------------------------------------------------------------------
(* create_manifest_catalog_ref.py: build_dataframe_from_manifest *)

\* A node key or dependency key is the sequence of its dot-separated parts.
\* catalog.get(key, {}): the entry, or the empty dict
NoEntry == [key |-> <<>>, columns |-> <<>>, database |-> "", schema |-> "", name |-> ""]

\* a catalog entry: its columns in order; database and schema of its metadata and its
\* name, "" when the entry has none
Entry(key, columns, database, schema_name, name) ==
    [key |-> key, columns |-> columns, database |-> database, schema |-> schema_name,
     name |-> name]

Get(catalog, key) ==
    IF \E e \in catalog : e.key = key THEN CHOOSE e \in catalog : e.key = key ELSE NoEntry

\* entry.get(field, fallback)
GetOr(value, fallback) == IF value # "" THEN value ELSE fallback

ManifestNode(key, database, schema_name, name, resource_type, nodes) ==
    [key |-> key, database |-> database, schema |-> schema_name, name |-> name,
     resource_type |-> resource_type, depends_on |-> nodes]

\* reference_info[dep_full_name].append(dep_col) for every column, on a defaultdict(list)
Extend(reference_info, dep_full_name, dep_columns) ==
    IF \E i \in 1..Len(reference_info) : reference_info[i].key = dep_full_name
    THEN [i \in 1..Len(reference_info) |->
             IF reference_info[i].key = dep_full_name
             THEN [key |-> dep_full_name, cols |-> reference_info[i].cols \o dep_columns]
             ELSE reference_info[i]]
    ELSE Append(reference_info, [key |-> dep_full_name, cols |-> dep_columns])

\* the catalog section a dependency of that type is looked up in, with the number of
\* parts its key must have
DepCatalog(dep, catalog_nodes, catalog_sources) ==
    IF dep[1] = "model" THEN [parts |-> 3, catalog |-> catalog_nodes]
    ELSE IF dep[1] = "source" THEN [parts |-> 4, catalog |-> catalog_sources]
    ELSE [parts |-> 0, catalog |-> {}]

\* dep_full_name = f"{dep_database}.{dep_schema}.{dep_table_name}"
DepFullName(dep, entry, node) ==
    <<GetOr(entry.database, node.database), GetOr(entry.schema, node.schema),
      GetOr(entry.name, dep[Len(dep)])>>

\* one pass of `for dep in dependent_nodes`
AddDependency(reference_info, dep, node, section) ==
    IF Len(dep) # section.parts THEN reference_info
    ELSE IF Get(section.catalog, dep).columns = <<>> THEN reference_info
    ELSE Extend(reference_info, DepFullName(dep, Get(section.catalog, dep), node),
                Get(section.catalog, dep).columns)

RECURSIVE BuildReference(_, _, _, _, _)
BuildReference(reference_info, dependent_nodes, node, catalog_nodes, catalog_sources) ==
    IF dependent_nodes = <<>> THEN reference_info
    ELSE BuildReference(AddDependency(reference_info, Head(dependent_nodes), node,
                                      DepCatalog(Head(dependent_nodes), catalog_nodes,
                                                 catalog_sources)),
                        Tail(dependent_nodes), node, catalog_nodes, catalog_sources)

\* the entry under the key in either section, whatever the resource_type
CatalogEntryAnywhere(node, catalog_nodes, catalog_sources) ==
    Get(catalog_nodes \cup catalog_sources, node.key)

\* catalog_entry of the node: by resource_type in catalog_nodes or catalog_sources;
\* an unsupported type is skipped
CatalogEntryOf(node, catalog_nodes, catalog_sources) ==
    IF node.resource_type = "model" THEN Get(catalog_nodes, node.key)
    ELSE IF node.resource_type = "source" THEN Get(catalog_sources, node.key)
    ELSE NoEntry

\* data.append({...}) for every column of the entry; k is the position of the node
EntriesOf(k, node, columns, reference_info) ==
    [c \in 1..Len(columns) |->
        [node |-> k,
         unique_key |-> <<node.database, node.schema, node.name, columns[c]>>,
         database |-> node.database, schema |-> node.schema, table_name |-> node.name,
         column_name |-> columns[c], resource_type |-> node.resource_type,
         reference |-> reference_info]]

\* the body of `for node_key, node_info in manifest_nodes.items()`
NodeData(k, node, catalog_nodes, catalog_sources) ==
    EntriesOf(k, node, CatalogEntryOf(node, catalog_nodes, catalog_sources).columns,
              BuildReference(<<>>, node.depends_on, node, catalog_nodes, catalog_sources))

----------------------------------------------------------------------------
(* the manifests and catalogs the loader is run on *)

MaxNodes == 2
MaxDeps == 2

\* catalog.json "nodes": stg has no database or schema of its own, stg_v2 is the
\* relation db.sch.stg like stg, empty has no columns
CatalogNodes ==
    { Entry(<<"model", "pkg", "orders">>, <<"id", "total">>, "db", "sch", ""),
      Entry(<<"model", "pkg", "orders_v2">>, <<"id">>, "db", "sch", ""),
      Entry(<<"model", "pkg", "stg">>, <<"a", "b">>, "", "", ""),
      Entry(<<"model", "pkg", "stg_v2">>, <<"a", "c">>, "db", "sch", "stg"),
      Entry(<<"model", "pkg", "empty">>, <<>>, "db", "sch", ""),
      Entry(<<"seed", "pkg", "countries">>, <<"code">>, "db", "sch", "") }

\* catalog.json "sources"
CatalogSources ==
    { Entry(<<"source", "pkg", "shop", "raw">>, <<"id", "name">>, "rawdb", "shop", "raw"),
      Entry(<<"model", "pkg", "misfiled">>, <<"id">>, "db", "sch", "") }

DepPool ==
    { <<"model", "pkg", "stg">>, <<"model", "pkg", "stg_v2">>,
      <<"source", "pkg", "shop", "raw">>, <<"model", "stg">>,
      <<"model", "pkg", "ghost">>, <<"model", "pkg", "empty">>,
      <<"seed", "pkg", "countries">> }

\* manifest.json "nodes"; nodes is the depends_on list of the orders model
NodePool(nodes) ==
    { ManifestNode(<<"model", "pkg", "orders">>, "db", "sch", "orders", "model", nodes),
      ManifestNode(<<"model", "pkg", "orders_v2">>, "db", "sch", "orders", "model", <<>>),
      ManifestNode(<<"source", "pkg", "shop", "raw">>, "rawdb", "shop", "raw", "source", <<>>),
      ManifestNode(<<"seed", "pkg", "countries">>, "db", "sch", "countries", "seed", <<>>),
      ManifestNode(<<"model", "pkg", "ghost">>, "db", "sch", "ghost", "model", <<>>),
      ManifestNode(<<"model", "pkg", "empty">>, "db", "sch", "empty", "model", <<>>),
      ManifestNode(<<"model", "pkg", "misfiled">>, "db", "sch", "misfiled", "model", <<>>) }

\* a dict: no key twice
Manifests ==
    { m \in UNION { SeqsUpTo(NodePool(d), MaxNodes) : d \in [1..0 -> DepPool] \cup SeqsUpTo(DepPool, MaxDeps) } :
          \A i, j \in 1..Len(m) : m[i].key = m[j].key => i = j }

LoaderStart ==
    /\ manifest_nodes \in Manifests
    /\ data = <<>>
    /\ l_pc = "nodes"
    /\ l_i = 1

LoaderIdle ==
    /\ manifest_nodes = <<>>
    /\ data = <<>>
    /\ l_pc = "idle"
    /\ l_i = 1

\* one pass of `for node_key, node_info in manifest_nodes.items()`
LoadNode ==
    /\ l_pc = "nodes"
    /\ l_i <= Len(manifest_nodes)
    /\ data' = data \o NodeData(l_i, manifest_nodes[l_i], CatalogNodes, CatalogSources)
    /\ l_i' = l_i + 1
    /\ UNCHANGED <<manifest_nodes, l_pc>>
    /\ UNCHANGED <<tracerVars, expanderVars, resolverVars, objectVars, mergeVars, extractVars, hierarchyVars>>

\* df = pd.DataFrame(data); return df
ReturnDataFrame ==
    /\ l_pc = "nodes"
    /\ l_i > Len(manifest_nodes)
    /\ l_pc' = "returned"
    /\ UNCHANGED <<manifest_nodes, data, l_i>>
    /\ UNCHANGED <<tracerVars, expanderVars, resolverVars, objectVars, mergeVars, extractVars, hierarchyVars>>

----------------------------------------------------------------------------
(* trace_column_lineage on expression objects *)

\* The transformations stored in cte_definitions are the expression objects of the
\* parsed query, and replace_columns rewrites them in place with node.set; the calls
\* return those objects, so a later node.set can put an object inside itself.
\* CTE t is table t, 0 is a base table.  A stored transformation is the column as it
\* was selected, or a function node holding one expression in its `this` slot: a
\* column at first, whatever node.set put there later.  o_heap[k] is the `this` slot
\* of function node k.  A call stack of more than RecursionLimit frames ends in
\* RecursionError.
RecursionLimit == 32

ColumnNames == {"X", "Y"}

\* a column node: bare, or qualified by a table
ColumnRef(name, qualified, table) ==
    [obj |-> 0, name |-> name, qualified |-> qualified, table |-> table]

\* the function node k
ObjectRef(k) == [obj |-> k, name |-> "", qualified |-> FALSE, table |-> 0]

\* the function node stored for column c of CTE t
ObjectOf(t, c) == 2 * (t - 1) + (IF c = "X" THEN 1 ELSE 2)

Returned(trans, heap, depth) ==
    [trans |-> trans, heap |-> heap, deepest |-> depth, raised |-> FALSE]

\* RecursionError: maximum recursion depth exceeded
RecursionError(heap, depth) ==
    [trans |-> ObjectRef(0), heap |-> heap, deepest |-> depth, raised |-> TRUE]

Deeper(a, b) == IF a >= b THEN a ELSE b

RECURSIVE TraceColumnLineage(_, _, _, _, _, _, _)
RECURSIVE ReplaceColumns(_, _, _, _, _, _, _)

\* node.set(arg_name, replace_columns(arg_value, current_depth)); return node
SetThis(node, r) ==
    IF r.raised THEN r
    ELSE [trans |-> node, heap |-> [r.heap EXCEPT ![node.obj] = r.trans],
          deepest |-> r.deepest, raised |-> FALSE]

\* src_table = node.table or source_table
SrcTable(node, source_table) == IF node.qualified THEN node.table ELSE source_table

\* replace_columns(node, current_depth) of the closure, frames deep in the call stack
ReplaceColumns(node, source_table, defs, heap, visited, depth, frames) ==
    IF frames > RecursionLimit THEN RecursionError(heap, depth)
    ELSE IF node.obj = 0 THEN
        TraceColumnLineage(ColumnRef(node.name, TRUE, SrcTable(node, source_table)),
                           SrcTable(node, source_table), defs, heap, visited, depth + 1,
                           frames + 1)
    ELSE SetThis(node, ReplaceColumns(heap[node.obj], source_table, defs, heap, visited,
                                      depth, frames + 1))

\* return final_columns, ', '.join(final_tables), full_transformation
TracedSource(full, r) ==
    [trans |-> full.trans, heap |-> r.heap, deepest |-> Deeper(full.deepest, r.deepest),
     raised |-> r.raised]

\* the loop over source_columns, after replace_columns; the entries have one source
\* column at most
AfterReplaceColumns(full, source_columns, source_table, defs, visited, depth, frames) ==
    IF full.raised \/ source_columns = {} THEN full
    ELSE TracedSource(full,
             TraceColumnLineage(
                 ColumnRef(CHOOSE c \in source_columns : TRUE, TRUE, source_table),
                 source_table, defs, full.heap, visited, depth + 1, frames + 1))

\* the call after the visited and depth tests, on the entry of the column
TraceEntry(entry, column_node, table, defs, heap, visited, depth, frames) ==
    IF entry.source_table = table /\ depth > 0 THEN
        Returned(entry.transformation, heap, depth)
    ELSE AfterReplaceColumns(
             ReplaceColumns(entry.transformation, entry.source_table, defs, heap,
                            visited \cup {<<table, column_node>>}, depth, frames + 1),
             entry.source_columns, entry.source_table, defs,
             visited \cup {<<table, column_node>>}, depth, frames)

\* the CTEs of the queries traced here select no *, so no cte_info has the key '*'
TraceColumnLineage(column_node, table, defs, heap, visited, depth, frames) ==
    IF frames > RecursionLimit THEN RecursionError(heap, depth)
    ELSE IF <<table, column_node>> \in visited THEN Returned(column_node, heap, depth)
    ELSE IF depth >= max_depth THEN Returned(column_node, heap, depth)
    ELSE IF table \notin 1..Len(defs) THEN Returned(column_node, heap, depth)
    ELSE IF column_node.name \notin DOMAIN defs[table] THEN
        Returned(column_node, heap, depth)
    ELSE TraceEntry(defs[table][column_node.name], column_node, table, defs, heap,
                    visited, depth, frames)

----------------------------------------------------------------------------
(* the cte_definitions trace_column_lineage is called on *)

MaxTables == 2
MaxChain == 12
MaxCalls == 3

\* what process_cte stores for column c of CTE t, one of n: the column itself, its
\* source columns {c}; a function the extraction does not know (UPPER(d) AS c), no
\* source columns; a function it rebuilds (d + 1 AS c), source columns {d}
EntryPool(t, c, n) ==
    { Info({c}, ColumnRef(c, FALSE, 0), s) : s \in 0..n }
    \cup { Info(cols, ObjectRef(ObjectOf(t, c)), s) :
               s \in 0..n, cols \in {{}} \cup {{d} : d \in ColumnNames} }

\* the columns a CTE defines: X, or X and Y when it is the only CTE
ColumnsOfCte(n) == IF n = 1 THEN {{"X"}, {"X", "Y"}} ELSE {{"X"}}

CteInfos(t, n) ==
    UNION { {info \in [cols -> EntryPool(t, "X", n) \cup EntryPool(t, "Y", n)] :
                 \A c \in cols : info[c] \in EntryPool(t, c, n)} : cols \in ColumnsOfCte(n) }

\* every CTE reading from a CTE or a base table, in cycles too
AnyDefinitions ==
    UNION { {d \in [1..n -> CteInfos(1, n) \cup CteInfos(n, n)] :
                \A t \in 1..n : d[t] \in CteInfos(t, n)} : n \in 1..MaxTables }

\* CTE t reading X from CTE t + 1, the last one from a base table
Chain(n) ==
    [t \in 1..n |-> [c \in {"X"} |->
        Info({"X"}, ColumnRef("X", FALSE, 0), IF t < n THEN t + 1 ELSE 0)]]

Definitions == AnyDefinitions \cup {Chain(n) : n \in max_depth..MaxChain}

\* the column inside the function node of an entry: as written under a function the
\* extraction does not know, qualified by the source under one it rebuilt
Children(entry) ==
    IF entry.transformation.obj = 0 THEN {ColumnRef("X", FALSE, 0)}
    ELSE IF entry.source_columns = {} THEN {ColumnRef(d, FALSE, 0) : d \in ColumnNames}
    ELSE {ColumnRef(d, TRUE, entry.source_table) : d \in entry.source_columns}

\* the `this` slot of object k at the start; an object no entry stores is never read
ChildrenAt(defs, k) ==
    IF (IF k % 2 = 1 THEN "X" ELSE "Y") \in DOMAIN defs[(k + 1) \div 2]
    THEN Children(defs[(k + 1) \div 2][IF k % 2 = 1 THEN "X" ELSE "Y"])
    ELSE {ColumnRef("X", FALSE, 0)}

RECURSIVE HeapsUpTo(_, _)
HeapsUpTo(defs, k) ==
    IF k = 0 THEN {<<>>}
    ELSE {Append(h, child) : h \in HeapsUpTo(defs, k - 1), child \in ChildrenAt(defs, k)}

Heaps(defs) == HeapsUpTo(defs, 2 * Len(defs))

----------------------------------------------------------------------------
(* gen_upstream_lineage.main on one row, as the calls of trace_column_lineage *)

ObjectsStart ==
    /\ o_defs \in Definitions
    /\ o_heap \in Heaps(o_defs)
    /\ o_calls = 0
    /\ o_deepest = 0
    /\ o_pc = "ctes"

ObjectsIdle ==
    /\ o_defs = <<>>
    /\ o_heap = <<>>
    /\ o_calls = 0
    /\ o_deepest = 0
    /\ o_pc = "idle"

\* a call returns, or its exception goes to the nearest handler
Traced(r, handled) ==
    /\ o_heap' = r.heap
    /\ o_deepest' = Deeper(o_deepest, r.deepest)
    /\ o_pc' = IF ~r.raised THEN o_pc ELSE IF handled THEN "caught" ELSE "escaped"
    /\ o_calls' = o_calls + 1
    /\ UNCHANGED o_defs

\* process_cte of a later CTE traces a column of an earlier one: the extraction
\* qualifies the column and calls trace_column_lineage with no visited set and depth
\* 0, on the definitions as earlier calls left them.  No try encloses process_cte in
\* process_with_and_select, nor process_with_and_select in the loop of main.
TraceInCte ==
    /\ o_pc = "ctes"
    /\ o_calls < MaxCalls
    /\ \E table \in 1..Len(o_defs) : \E c \in ColumnNames :
           Traced(TraceColumnLineage(ColumnRef(c, TRUE, table), table, o_defs, o_heap,
                                     {}, 0, 1), FALSE)
    /\ UNCHANGED <<tracerVars, expanderVars, resolverVars, loaderVars, mergeVars, extractVars, hierarchyVars>>

\* the CTEs are done: the outer select list is next
MainSelect ==
    /\ o_pc = "ctes"
    /\ o_pc' = "select"
    /\ UNCHANGED <<o_defs, o_heap, o_calls, o_deepest>>
    /\ UNCHANGED <<tracerVars, expanderVars, resolverVars, loaderVars, mergeVars, extractVars, hierarchyVars>>

\* a projection of the outer select traces a column: qualified by the extraction, or
\* bare from exp.to_column(col) of the Star branch; each branch has its own try
TraceInSelect ==
    /\ o_pc \in {"select", "caught"}
    /\ o_calls < MaxCalls
    /\ \E table \in 1..Len(o_defs) : \E c \in ColumnNames : \E qualified \in BOOLEAN :
           Traced(TraceColumnLineage(ColumnRef(c, qualified, IF qualified THEN table ELSE 0),
                                     table, o_defs, o_heap, {}, 0, 1), TRUE)
    /\ UNCHANGED <<tracerVars, expanderVars, resolverVars, loaderVars, mergeVars, extractVars, hierarchyVars>>

\* process_with_and_select returned: the rows are inserted, the loop takes the next row
InsertRows ==
    /\ o_pc \in {"select", "caught"}
    /\ o_pc' = "inserted"
    /\ UNCHANGED <<o_defs, o_heap, o_calls, o_deepest>>
    /\ UNCHANGED <<tracerVars, expanderVars, resolverVars, loaderVars, mergeVars, extractVars, hierarchyVars>>

----------------------------------------------------------------------------
(* combined_lineage_db_tableau.py: merge_lineage *)

\* str.lower() on the names of the lineage files
lower(n) ==
    CASE n = "ID" -> "id" [] n = "Id" -> "id" [] n = "NAME" -> "name"
      [] n = "ORDERS" -> "orders" [] n = "Orders" -> "orders" [] n = "RAW" -> "raw"
      [] OTHER -> n

\* an entry of the database lineage: a column of a model and the entries upstream of it
DbEntry(column, model, upstream_models) ==
    [column |-> column, model |-> model, upstream_models |-> upstream_models]

\* None, and an upstream column without the key "database_lineage"
NoDbLineage == DbEntry("", "", <<>>)

\* if matching_upstream: return matching_upstream, else the loop goes on
FoundOr(matching_upstream, others) ==
    IF matching_upstream # NoDbLineage THEN matching_upstream ELSE others

\* a search that does not look into upstream_models
RECURSIVE find_direct_db_lineage(_, _, _)
find_direct_db_lineage(tableau_column, tableau_table, db_lineage) ==
    IF db_lineage = <<>> THEN NoDbLineage
    ELSE IF /\ lower(tableau_column) = lower(Head(db_lineage).column)
            /\ lower(tableau_table) = lower(Head(db_lineage).model)
    THEN Head(db_lineage)
    ELSE find_direct_db_lineage(tableau_column, tableau_table, Tail(db_lineage))

RECURSIVE find_matching_db_lineage(_, _, _)
find_matching_db_lineage(tableau_column, tableau_table, db_lineage) ==
    IF db_lineage = <<>> THEN NoDbLineage
    ELSE IF /\ lower(tableau_column) = lower(Head(db_lineage).column)
            /\ lower(tableau_table) = lower(Head(db_lineage).model)
    THEN Head(db_lineage)
    ELSE FoundOr(find_matching_db_lineage(tableau_column, tableau_table,
                                          Head(db_lineage).upstream_models),
                 find_matching_db_lineage(tableau_column, tableau_table, Tail(db_lineage)))

UpstreamColumn(name, upstreamTables) ==
    [name |-> name, upstreamTables |-> upstreamTables, database_lineage |-> NoDbLineage]

\* upstream_column["database_lineage"] = matching_db_lineage, if there is a match
Attach(upstream_column, matching_db_lineage) ==
    IF matching_db_lineage # NoDbLineage
    THEN [upstream_column EXCEPT !.database_lineage = matching_db_lineage]
    ELSE upstream_column

\* for upstream_table in upstream_tables, from table k on
RECURSIVE AttachFrom(_, _, _)
AttachFrom(upstream_column, k, db_lineage) ==
    IF k > Len(upstream_column.upstreamTables) THEN upstream_column
    ELSE AttachFrom(Attach(upstream_column,
                           find_matching_db_lineage(upstream_column.name,
                                                    upstream_column.upstreamTables[k],
                                                    db_lineage)),
                    k + 1, db_lineage)

\* an upstream field; calculations is FALSE for a field without the key
\* "referencedByCalculations"
UpstreamField(upstreamColumns, upstreamFields, calculations, referencedByCalculations) ==
    [upstreamColumns |-> upstreamColumns, upstreamFields |-> upstreamFields,
     calculations |-> calculations, referencedByCalculations |-> referencedByCalculations]

RECURSIVE process_upstream_fields(_, _)
process_upstream_fields(upstream_fields, db_lineage) ==
    [i \in 1..Len(upstream_fields) |->
        [upstream_fields[i] EXCEPT
            !.upstreamColumns = [j \in 1..Len(@) |-> AttachFrom(@[j], 1, db_lineage)],
            !.upstreamFields = process_upstream_fields(@, db_lineage)]]

\* for calc in upstream_field["referencedByCalculations"]:
\*     process_upstream_fields(calc.get("upstreamFields", []), ...)
ProcessCalculations(upstream_field, db_lineage) ==
    IF ~upstream_field.calculations THEN upstream_field
    ELSE [upstream_field EXCEPT
             !.referencedByCalculations =
                 [k \in 1..Len(@) |->
                     [upstreamFields |-> process_upstream_fields(@[k].upstreamFields,
                                                                 db_lineage)]]]

----------------------------------------------------------------------------
(* the lineage files merge_lineage is run on: one datasource with one sheet *)

MaxFields == 2
MaxDbEntries == 2

DbLeaves == {DbEntry(c, m, <<>>) : c \in {"id", "NAME"}, m \in {"orders", "RAW"}}

DbParents == {DbEntry("ID", m, <<e>>) : m \in {"Orders", "stg"}, e \in DbLeaves}

DbLineages ==
    {<<>>} \cup {<<e>> : e \in DbLeaves \cup DbParents}
    \cup UNION {[1..k -> DbLeaves] : k \in 2..MaxDbEntries}

UpstreamColumns ==
    { UpstreamColumn(n, t) : n \in {"Id", "name"},
                             t \in {<<>>, <<"ORDERS">>, <<"raw", "orders">>} }

NoFields == <<>>

\* a field with a column of its own, with a nested field, or referenced by a calculation
FieldPool ==
    { UpstreamField(<<c>>, NoFields, FALSE, <<>>) : c \in UpstreamColumns }
    \cup { UpstreamField(<<>>, <<UpstreamField(<<c>>, NoFields, FALSE, <<>>)>>, FALSE, <<>>) :
               c \in UpstreamColumns }
    \cup { UpstreamField(<<>>, NoFields, TRUE,
                         <<[upstreamFields |-> <<UpstreamField(<<c>>, NoFields, FALSE, <<>>)>>]>>) :
               c \in UpstreamColumns }

MergeStart ==
    /\ sheet_upstreamFields \in UNION {[1..k -> FieldPool] : k \in 1..MaxFields}
    /\ db_lineage_data \in DbLineages
    /\ m_pc = "fields"
    /\ m_i = 1

MergeIdle ==
    /\ sheet_upstreamFields = <<>>
    /\ db_lineage_data = <<>>
    /\ m_pc = "idle"
    /\ m_i = 1

\* process_non_calculated_fields: process_upstream_fields([upstream_field], ...) for
\* every upstream field of the sheet
ProcessNonCalculated ==
    /\ m_pc = "fields"
    /\ sheet_upstreamFields' =
           [sheet_upstreamFields EXCEPT
               ![m_i] = process_upstream_fields(<<@>>, db_lineage_data)[1]]
    /\ IF m_i < Len(sheet_upstreamFields)
       THEN m_i' = m_i + 1 /\ m_pc' = "fields"
       ELSE m_i' = 1 /\ m_pc' = "calculations"
    /\ UNCHANGED db_lineage_data
    /\ UNCHANGED <<tracerVars, expanderVars, resolverVars, loaderVars, objectVars, extractVars, hierarchyVars>>

\* the second loop of merge_lineage over the upstream fields of the sheet; after the
\* last one merge_lineage returns tableau_data
ProcessReferenced ==
    /\ m_pc = "calculations"
    /\ sheet_upstreamFields' =
           [sheet_upstreamFields EXCEPT ![m_i] = ProcessCalculations(@, db_lineage_data)]
    /\ IF m_i < Len(sheet_upstreamFields)
       THEN m_i' = m_i + 1 /\ m_pc' = "calculations"
       ELSE m_i' = m_i /\ m_pc' = "returned"
    /\ UNCHANGED db_lineage_data
    /\ UNCHANGED <<tracerVars, expanderVars, resolverVars, loaderVars, objectVars, extractVars, hierarchyVars>>

----------------------------------------------------------------------------
(* one call of extract_source_columns_and_transformation *)

\* (e), CAST(e AS to) and the DISTINCT e of COUNT(DISTINCT e) as parse_one builds them
Paren(e) == Node("Paren", "", EmptyStr, <<e>>, FALSE)
Cast(e, to) == Node("Cast", to, EmptyStr, <<e>>, FALSE)
Distinct(a) == Node("Distinct", "", EmptyStr, a, FALSE)

\* cte_definitions as process_cte leaves it after the CTEs of a WITH clause
RECURSIVE StoredDefinitions(_, _)
StoredDefinitions(ctes, defs) ==
    IF ctes = <<>> THEN defs
    ELSE StoredDefinitions(Tail(ctes), process_cte(Head(ctes), {}, defs).defs)

ExtractCtes ==
    { <<>>,
      <<Cte("A", "Select", RAW, <<Star>>)>>,
      <<Cte("A", "Select", RAW, <<Col("ID"), Alias(Binary("Add", Col("X"), Literal("1")), "Y")>>)>>,
      <<Cte("A", "Select", RAW, <<Col("ID"), Col("X")>>),
        Cte("B", "Select", FromCte("A"), <<Alias(Col("ID"), "Y")>>)>>,
      <<Cte("A", "Select", RAW, <<Col("ID"), Alias(Binary("Add", Col("X"), Literal("1")), "Y")>>),
        Cte("B", "Select", FromCte("A"), <<Alias(Unary("Upper", Col("Y")), "U")>>)>> }

\* the columns and the literal an expression is written over; T1 and T2 are tables of
\* a join that no CTE declares
Leaves ==
    { Col("ID"), Column("ID", Str("A")), Column("U", Str("B")), Column("X", Str("T1")),
      Column("Y", Str("T2")), Literal("1") }

Expressions ==
    { Paren(l) : l \in Leaves }
    \cup { Cast(l, "INT") : l \in Leaves }
    \cup { Binary(k, l, r) : k \in {"Add", "EQ"}, l \in Leaves, r \in Leaves }
    \cup { Binary("Mul", Binary("Add", l, r), s) : l \in Leaves, r \in Leaves, s \in Leaves }
    \cup { Agg("Count", l, FALSE) : l \in Leaves }
    \cup { Agg(k, Distinct(<<l>>), FALSE) : k \in {"Count", "Sum"}, l \in Leaves }
    \cup { Case(<<If(Binary("EQ", l, Literal("1")), Literal("1"))>>, d) :
               l \in Leaves, d \in Leaves \cup {None} }
    \cup { Coalesce(<<l, r>>) : l \in Leaves, r \in Leaves }
    \cup { TimestampTrunc(l, "DAY") : l \in Leaves }

NotCalled == Extracted({}, None, EmptyStr, <<>>)

ExtractStart ==
    /\ e_node \in Expressions
    /\ e_table \in {Str("A"), QualifiedName(RAW)}
    /\ e_defs \in {StoredDefinitions(c, <<>>) : c \in ExtractCtes}
    /\ e_out = NotCalled
    /\ e_pc = "call"

ExtractIdle ==
    /\ e_node = None
    /\ e_table = EmptyStr
    /\ e_defs = <<>>
    /\ e_out = NotCalled
    /\ e_pc = "idle"

ExtractReturned(r) ==
    /\ e_out' = r
    /\ e_pc' = IF r.raised THEN "raised" ELSE "returned"

\* extract_source_columns_and_transformation(node, table_alias_map, cte_definitions,
\*                                           current_table=current_table)
ExtractCall ==
    /\ e_pc = "call"
    /\ ExtractReturned(extract_source_columns_and_transformation(e_node, e_defs, e_table))
    /\ UNCHANGED <<e_node, e_table, e_defs>>
    /\ UNCHANGED <<tracerVars, expanderVars, resolverVars, loaderVars, objectVars, mergeVars,
                   hierarchyVars>>

----------------------------------------------------------------------------
(* gen_full_lineage_db_json.py: build_full_hierarchy *)

\* a row of the DataFrame read_data_from_snowflake returns, its names in upper case;
\* UPSTREAM_TABLE and UPSTREAM_COLUMN are kept as the pieces between their commas, a
\* column piece as the segments between its dots
LineageRow(name, column, upstream_tables, upstream_columns) ==
    [NAME |-> name, COLUMN_NAME |-> column,
     UPSTREAM_TABLE |-> upstream_tables, UPSTREAM_COLUMN |-> upstream_columns]

\* column_name.split('.')[-1].strip()
extract_column_name(column_name) == column_name[Len(column_name)]

\* base_structure; the description and the reasoning, which no later step reads, are
\* left out
Hierarchy(model_name, column_name, upstream_models) ==
    [model |-> model_name, column |-> column_name, upstream_models |-> upstream_models]

Built(hierarchy) == [raised |-> FALSE, hierarchy |-> hierarchy]

\* RecursionError: maximum recursion depth exceeded
DepthExceeded == [raised |-> TRUE, hierarchy |-> Hierarchy("", "", <<>>)]

\* df[(df['NAME'] == model_name) & (df['COLUMN_NAME'] == column_name)]
Matching(rows, model_name, column_name) ==
    {i \in 1..Len(rows) : rows[i].NAME = model_name /\ rows[i].COLUMN_NAME = column_name}

\* current_row[...].values[0]: the first of the matching rows
current_row(rows, model_name, column_name) ==
    rows[CHOOSE i \in Matching(rows, model_name, column_name) :
             \A j \in Matching(rows, model_name, column_name) : i <= j]

\* the length of zip(upstream_tables, upstream_columns)
ZipLen(row) ==
    IF Len(row.UPSTREAM_TABLE) <= Len(row.UPSTREAM_COLUMN)
    THEN Len(row.UPSTREAM_TABLE) ELSE Len(row.UPSTREAM_COLUMN)

RECURSIVE build_hierarchy(_, _, _, _)
RECURSIVE upstream_from(_, _, _, _)

NoUpstream(raised) == [raised |-> raised, upstream_models |-> <<>>]

AppendedTo(upstream_hierarchy, rest) ==
    [raised |-> rest.raised,
     upstream_models |-> <<upstream_hierarchy.hierarchy>> \o rest.upstream_models]

\* base_structure["upstream_models"].append(upstream_hierarchy); an exception of the
\* nested call ends the loop
UpstreamTail(upstream_hierarchy, rows, row, k, frames) ==
    IF upstream_hierarchy.raised THEN NoUpstream(TRUE)
    ELSE AppendedTo(upstream_hierarchy, upstream_from(rows, row, k + 1, frames))

\* the loop over zip(upstream_tables, upstream_columns), from pair k on
upstream_from(rows, row, k, frames) ==
    IF k > ZipLen(row) THEN NoUpstream(FALSE)
    ELSE UpstreamTail(build_hierarchy(rows, upper(row.UPSTREAM_TABLE[k]),
                                      extract_column_name(row.UPSTREAM_COLUMN[k]),
                                      frames + 1),
                      rows, row, k, frames)

Returned_hierarchy(model_name, column_name, r) ==
    IF r.raised THEN DepthExceeded
    ELSE Built(Hierarchy(model_name, column_name, r.upstream_models))

\* the frames of build_hierarchy the interpreter's recursion limit leaves room for
MaxFrames == 10

\* frames is the number of frames of build_hierarchy on the stack
build_hierarchy(rows, model_name, column_name, frames) ==
    IF frames > MaxFrames THEN DepthExceeded
    ELSE IF Matching(rows, upper(model_name), upper(column_name)) = {}
    THEN Built(Hierarchy(upper(model_name), upper(column_name), <<>>))
    ELSE Returned_hierarchy(upper(model_name), upper(column_name),
                            upstream_from(rows,
                                          current_row(rows, upper(model_name),
                                                      upper(column_name)),
                                          1, frames))

----------------------------------------------------------------------------
(* the lineage tables build_full_hierarchy is run on *)

MaxRows == 2

\* rows of the models ORDERS and STG; RAW is a table no row describes
LineageRows ==
    { LineageRow(n, c, t, u) :
          n \in {"ORDERS", "STG"}, c \in {"ID", "QTY"},
          t \in {<<"STG">>, <<"ORDERS">>, <<"RAW">>, <<"RAW", "STG">>},
          u \in {<<<<"ID">>>>, <<<<"ID">>, <<"QTY">>>>, <<<<"RAW", "ID">>>>} }

HierarchyStart ==
    /\ df \in UNION {[1..k -> LineageRows] : k \in 1..MaxRows}
    /\ full_hierarchy = <<>>
    /\ h_pc = "rows"
    /\ h_i = 1

HierarchyIdle ==
    /\ df = <<>>
    /\ full_hierarchy = <<>>
    /\ h_pc = "idle"
    /\ h_i = 1

HierarchyBuilt(r) ==
    IF r.raised
    THEN h_pc' = "raised" /\ UNCHANGED <<full_hierarchy, h_i>>
    ELSE /\ full_hierarchy' = Append(full_hierarchy, r.hierarchy)
         /\ h_i' = h_i + 1
         /\ h_pc' = "rows"

\* one pass of `for index, row in df.iterrows()`; an exception of build_hierarchy
\* leaves build_full_hierarchy and main
BuildRow ==
    /\ h_pc = "rows"
    /\ h_i <= Len(df)
    /\ HierarchyBuilt(build_hierarchy(df, df[h_i].NAME,
                                      extract_column_name(<<df[h_i].COLUMN_NAME>>), 1))
    /\ UNCHANGED df
    /\ UNCHANGED <<tracerVars, expanderVars, resolverVars, loaderVars, objectVars, mergeVars,
                   extractVars>>

\* json.dump(full_hierarchy, f, indent=4)
DumpJson ==
    /\ h_pc = "rows"
    /\ h_i > Len(df)
    /\ h_pc' = "written"
    /\ UNCHANGED <<df, full_hierarchy, h_i>>
    /\ UNCHANGED <<tracerVars, expanderVars, resolverVars, loaderVars, objectVars, mergeVars,
                   extractVars>>

----------------------------------------------------------------------------
(* Specifications: one per program *)

\* gen_upstream_lineage.py on one query
Init == TracerStart /\ ExpanderIdle /\ ResolverIdle /\ LoaderIdle /\ ObjectsIdle /\ MergeIdle /\ ExtractIdle /\ HierarchyIdle
Next == TracerNext
Spec == Init /\ [][Next]_vars

\* expand_sql_ref.py on one record
ExpanderInit == TracerIdle /\ ExpanderStart /\ ResolverIdle /\ LoaderIdle /\ ObjectsIdle /\ MergeIdle /\ ExtractIdle /\ HierarchyIdle
ExpanderNext ==
    \/ ParseSql
    \/ ExpandNextCte
    \/ ExpandFinal
    \/ UpdateExpandedSql
    \/ ExceptError
    \/ ExpandAgain
SpecExpand == ExpanderInit /\ [][ExpanderNext]_vars

\* replace_refs_and_sources_in_sql on one row
ResolverInit == TracerIdle /\ ExpanderIdle /\ ResolverStart /\ LoaderIdle /\ ObjectsIdle /\ MergeIdle /\ ExtractIdle /\ HierarchyIdle
ResolverNext ==
    \/ Loads
    \/ SubRefs
    \/ SubSources
    \/ SubWithoutItems
SpecResolve == ResolverInit /\ [][ResolverNext]_vars

\* build_dataframe_from_manifest on one manifest
LoaderInit == TracerIdle /\ ExpanderIdle /\ ResolverIdle /\ LoaderStart /\ ObjectsIdle /\ MergeIdle /\ ExtractIdle /\ HierarchyIdle
LoaderNext ==
    \/ LoadNode
    \/ ReturnDataFrame
SpecLoad == LoaderInit /\ [][LoaderNext]_vars

\* calls of trace_column_lineage on one cte_definitions
ObjectsInit ==
    TracerIdle /\ ExpanderIdle /\ ResolverIdle /\ LoaderIdle /\ ObjectsStart /\ MergeIdle /\ ExtractIdle /\ HierarchyIdle
ObjectsNext ==
    \/ TraceInCte
    \/ MainSelect
    \/ TraceInSelect
    \/ InsertRows
SpecTrace == ObjectsInit /\ [][ObjectsNext]_vars

\* gen_upstream_lineage.main on the row the expander wrote: rows are fetched WHERE
\* EXPANDED_SQL IS NOT NULL, and sqlglot.parse_one(sql_query) gives the ast
FetchExpanded ==
    /\ x_pc = "done"
    /\ EXPANDED_SQL # NoSql
    /\ t_pc = "idle"
    /\ ast' = EXPANDED_SQL
    /\ t_pc' = "ctes"
    /\ UNCHANGED <<table_alias_map, cte_definitions, final_columns, main_table, t_i>>
    /\ UNCHANGED <<expanderVars, resolverVars, loaderVars, objectVars, mergeVars, extractVars, hierarchyVars>>

\* the expander followed by the tracer on one model; the expanded text has no bare *
\* left in its outer select list, so the Star branch of the tracer is never taken
PipelineInit == ExpanderInit
PipelineNext ==
    \/ ParseSql
    \/ ExpandNextCte
    \/ ExpandFinal
    \/ UpdateExpandedSql
    \/ ExceptError
    \/ FetchExpanded
    \/ ProcessCte
    \/ MainFrom
    \/ TraceAlias
    \/ TraceColumn
    \/ NoBranch
    \/ Return
SpecPipeline == PipelineInit /\ [][PipelineNext]_vars

\* combined_lineage_db_tableau.py on one sheet
MergeInit ==
    TracerIdle /\ ExpanderIdle /\ ResolverIdle /\ LoaderIdle /\ ObjectsIdle /\ MergeStart /\ ExtractIdle /\ HierarchyIdle
MergeNext ==
    \/ ProcessNonCalculated
    \/ ProcessReferenced
SpecMerge == MergeInit /\ [][MergeNext]_vars

\* extract_source_columns_and_transformation on one expression
ExtractInit ==
    /\ TracerIdle /\ ExpanderIdle /\ ResolverIdle /\ LoaderIdle /\ ObjectsIdle /\ MergeIdle
    /\ ExtractStart /\ HierarchyIdle
ExtractNext ==
    \/ ExtractCall
SpecExtract == ExtractInit /\ [][ExtractNext]_vars

\* gen_full_lineage_db_json.py on one lineage table
HierarchyInit ==
    /\ TracerIdle /\ ExpanderIdle /\ ResolverIdle /\ LoaderIdle /\ ObjectsIdle /\ MergeIdle
    /\ ExtractIdle /\ HierarchyStart
HierarchyNext ==
    \/ BuildRow
    \/ DumpJson
SpecHierarchy == HierarchyInit /\ [][HierarchyNext]_vars


----------------------------------------------------------------------------
(* Properties of the tracer *)

\* projection k of the outer SELECT has been handled by the loop
Handled(k) ==
    /\ k \in 1..Len(ast.projs)
    /\ \/ t_pc = "returned"
       \/ t_pc = "select" /\ k < t_i

RowsOf(k) == SelectSeq(final_columns, LAMBDA r : r.proj = k)

CteNames == {ast.ctes[i].alias : i \in 1..Len(ast.ctes)}

\* the fully-qualified source table a row names
SourceTableOf(row) ==
    IF row.database # "Unknown" /\ row.schema # "Unknown" /\ Len(row.table) = 1
    THEN <<<<row.database, row.schema>> \o row.table[1]>>
    ELSE row.table

IsPlaceholder(row) ==
    /\ row.database = "Unknown" /\ row.schema = "Unknown"
    /\ row.table = Unknown /\ row.cols = {"Unknown"}

\* the CTE the outer SELECT reads from, selecting column c directly from a base table
DirectFromBase(c) ==
    /\ ast.from.kind = "Table"
    /\ \E i \in 1..Len(ast.ctes) :
          /\ ast.ctes[i].alias = ast.from.name
          /\ \A j \in 1..Len(ast.ctes) : ast.ctes[j].alias = ast.from.name => j = i
          /\ ast.ctes[i].kind = "Select"
          /\ ast.ctes[i].from.kind = "Table"
          /\ ast.ctes[i].from.db # ""
          /\ \E j \in 1..Len(ast.ctes[i].projs) : ast.ctes[i].projs[j] = Col(c)

BaseOf(name) ==
    QualifiedName((CHOOSE c \in Range(ast.ctes) : c.alias = name).from)

IsRename(k) ==
    /\ ast.projs[k].kind = "Alias"
    /\ ast.projs[k].args[1].kind = "Column"
    /\ ast.projs[k].args[1].table = EmptyStr
    /\ DirectFromBase(ast.projs[k].args[1].name)

\* C1: every outer projection `col AS alias`, col exposed by a CTE that selects it
\* directly from base table T, gets a real lineage row: Final Column alias, source
\* table T, source columns {col}, the traced transformation.
C1_RenameHasLineageRow ==
    \A k \in 1..Len(ast.projs) :
        Handled(k) /\ IsRename(k) =>
            \E i \in 1..Len(final_columns) :
                /\ final_columns[i].proj = k
                /\ final_columns[i].final = ast.projs[k].name
                /\ SourceTableOf(final_columns[i]) = BaseOf(ast.from.name)
                /\ final_columns[i].cols = {ast.projs[k].args[1].name}
                /\ final_columns[i].trans.kind # "Text"

\* some column reference of the expression is qualified by a CTE of the query
MentionsCte(e) ==
    \E i \in 1..Len(ColumnsOf(e)) :
        \E j \in 1..Len(ColumnsOf(e)[i].table) :
            \E n \in CteNames : ColumnsOf(e)[i].table[j] = <<n>>

\* C2: the transformation of every emitted row references no CTE name declared in
\* the query's WITH clause.
C2_NoCteNameInTransformation ==
    \A i \in 1..Len(final_columns) : ~MentionsCte(final_columns[i].trans)

\* tracing the expression reads arg_transformation before it is bound
RECURSIVE RaisesInTracing(_)
RaisesInTracing(e) ==
    \/ e.kind = "TimestampTrunc" /\ e.args[1].kind = "None"
    \/ \E i \in 1..Len(e.args) : RaisesInTracing(e.args[i])

C4_OneRowPerProjection ==
    t_pc = "returned" /\ ast.kind = "Select" =>
        \A k \in 1..Len(ast.projs) :
            ast.projs[k].kind # "Star" =>
                /\ Len(RowsOf(k)) = 1
                /\ ast.projs[k].kind \notin {"Alias", "Column"} /\ NameOf(ast.projs[k]) # ""
                       => RowsOf(k)[1].final = NameOf(ast.projs[k])

IsLiteralProjection(p) ==
    \/ p.kind \in {"Literal", "Boolean"}
    \/ p.kind = "Alias" /\ p.args[1].kind \in {"Literal", "Boolean"}

\* C5: a query whose outer projections are all literals yields one row per
\* projection, each with no source columns and no source tables.
C5_LiteralRowsAreEmpty ==
    /\ t_pc = "returned"
    /\ ast.kind = "Select"
    /\ \A k \in 1..Len(ast.projs) : IsLiteralProjection(ast.projs[k])
    => \A k \in 1..Len(ast.projs) :
          /\ Len(RowsOf(k)) = 1
          /\ RowsOf(k)[1].cols = {}
          /\ RowsOf(k)[1].table = EmptyStr

----------------------------------------------------------------------------
(* Properties of the star expander *)

\* generate_expanded_sql has been called on the text E it returned before, and is over
Reexpanded == x_run = 2 /\ x_pc \in {"returned", "raised", "done"}

\* C6: star expansion is idempotent: whenever generate_expanded_sql(Q, R) returns E,
\* generate_expanded_sql(E, R) returns too, and returns the same query as E; E is the
\* upper-cased text, the keys of R keep their case.
C6_ExpansionIdempotent ==
    Reexpanded =>
        /\ x_pc # "raised"
        /\ x_exc = ""
        /\ expanded_sql = original_sql

\* C7: for a query without a WITH clause generate_expanded_sql returns the input SQL
\* untouched instead of failing, so the record gets an EXPANDED_SQL.
C7_NoWithIsNoOp ==
    x_run = 1 /\ original_sql.ctes = <<>> /\ x_pc \in {"returned", "raised", "done"} =>
        /\ x_pc # "raised"
        /\ expanded_sql = original_sql
        /\ x_pc = "done" => EXPANDED_SQL = original_sql

----------------------------------------------------------------------------
(* Properties of the resolver *)

Keys(items) == {items[i].key : i \in 1..Len(items)}

\* the positions of the map whose key ends in the name
EndingIn(items, name) == {i \in 1..Len(items) : items[i].key[Len(items[i].key)] = name}

\* the positions of the map whose key is database.schema.<name>
TableIs(items, name) == {i \in EndingIn(items, name) : Len(items[i].key) = 3}

First(S) == CHOOSE i \in S : \A j \in S : i <= j

\* a placeholder becomes the first key among the positions, stays as it is without one
Substituted(piece, items, positions) ==
    IF positions = {} THEN piece ELSE FullName(items[First(positions)].key)

\* the reference substitution: refs and sources by the last segment of the key
ReferenceSubstitution(s, items) ==
    [i \in 1..Len(s) |->
        IF RefPattern(s[i]) \/ SourcePattern(s[i])
        THEN Substituted(s[i], items, EndingIn(items, s[i].text))
        ELSE s[i]]

\* the same, a source placeholder matching three-part keys only
ThreePartSubstitution(s, items) ==
    [i \in 1..Len(s) |->
        IF RefPattern(s[i]) THEN Substituted(s[i], items, EndingIn(items, s[i].text))
        ELSE IF SourcePattern(s[i]) THEN Substituted(s[i], items, TableIs(items, s[i].text))
        ELSE s[i]]

InsertedAreKeys ==
    \A i \in 1..Len(sql) : sql[i].kind = "name" => sql[i].key \in Keys(reference_str.items)

Resolved == r_pc = "returned" /\ reference_str.json = "object"

\* C8 as stated: replace_refs_and_sources_in_sql equals the reference substitution:
\* a ref or source placeholder becomes the first key, in map order, whose last
\* dot-separated segment is its name; without such a key it stays verbatim; all
\* other text is unchanged; every inserted name is a key of the map.
C8_ReferenceSubstitution ==
    Resolved =>
        /\ sql = ReferenceSubstitution(r_sql, reference_str.items)
        /\ InsertedAreKeys

\* C8, amended: as above, but a source placeholder becomes the first key, in map
\* order, that has exactly three dot-separated segments, the last being its name.
C8_ThreePartSubstitution ==
    Resolved =>
        /\ sql = ThreePartSubstitution(r_sql, reference_str.items)
        /\ InsertedAreKeys

\* a ref and a source placeholder were both replaced, the source placeholder passing
\* over a key that ends in its name but has not three parts
C8_Witness ==
    /\ Resolved
    /\ \E i \in 1..Len(sql) : RefPattern(r_sql[i]) /\ sql[i].kind = "name"
    /\ \E i \in 1..Len(sql) :
          /\ SourcePattern(r_sql[i])
          /\ sql[i].kind = "name"
          /\ First(EndingIn(reference_str.items, r_sql[i].text))
                 # First(TableIs(reference_str.items, r_sql[i].text))

\* the placeholder has no matching entry, or more than one
Anomalous(piece, items) ==
    /\ RefPattern(piece) \/ SourcePattern(piece)
    /\ Cardinality(EndingIn(items, piece.text)) # 1

\* C9: whenever a placeholder has no matching entry of the map or more than one, a
\* diagnostic is printed during replace_refs_and_sources_in_sql.
C9_AnomaliesReported ==
    Resolved /\ (\E i \in 1..Len(r_sql) : Anomalous(r_sql[i], reference_str.items))
        => r_printed # <<>>

\* C10: when the reference is not valid JSON, replace_refs_and_sources_in_sql returns
\* the SQL it was given, no placeholder substituted, and raises nothing.
C10_InvalidJsonReturnsSql ==
    reference_str.json = "invalid" /\ r_pc # "start" =>
        /\ r_pc = "returned"
        /\ sql = r_sql

\* returned on invalid JSON, a placeholder of the SQL naming a table the text mentions
C10_Witness ==
    /\ reference_str.json = "invalid"
    /\ r_pc = "returned"
    /\ \E i \in 1..Len(r_sql) :
          /\ RefPattern(r_sql[i])
          /\ EndingIn(reference_str.items, r_sql[i].text) # {}

----------------------------------------------------------------------------
(* Properties of the loader *)

\* node k of the manifest has been through the loop
Loaded(k) == k \in 1..Len(manifest_nodes) /\ (l_pc = "returned" \/ k < l_i)

RecordsOf(k) == SelectSeq(data, LAMBDA r : r.node = k)

\* the catalog section for the resource type
SectionOf(resource_type) ==
    IF resource_type = "model" THEN CatalogNodes
    ELSE IF resource_type = "source" THEN CatalogSources
    ELSE {}

\* model or source, with an entry under its key in the matching section that has columns
Catalogued(node) ==
    \E e \in SectionOf(node.resource_type) : e.key = node.key /\ e.columns # <<>>

ColumnsFor(node) ==
    (CHOOSE e \in SectionOf(node.resource_type) : e.key = node.key).columns

\* C11: a manifest node gets records if and only if it is a model or a source, has a
\* catalog entry under its key in the section of its type, and that entry has a
\* column; its records are then one per column of that entry, whatever nodes were
\* skipped around it.
C11_RecordsIffCatalogued ==
    \A k \in 1..Len(manifest_nodes) :
        Loaded(k) =>
            /\ RecordsOf(k) # <<>> <=> Catalogued(manifest_nodes[k])
            /\ Catalogued(manifest_nodes[k]) =>
                  /\ Len(RecordsOf(k)) = Len(ColumnsFor(manifest_nodes[k]))
                  /\ \A c \in 1..Len(RecordsOf(k)) :
                        /\ RecordsOf(k)[c].column_name = ColumnsFor(manifest_nodes[k])[c]
                        /\ RecordsOf(k)[c].table_name = manifest_nodes[k].name

\* the loop is over, a skipped node standing before a node that got its records
C11_Witness ==
    /\ l_pc = "returned"
    /\ \E j, k \in 1..Len(manifest_nodes) :
          /\ j < k
          /\ ~Catalogued(manifest_nodes[j])
          /\ Catalogued(manifest_nodes[k])
          /\ RecordsOf(k) # <<>>

\* well formed (3 parts for a model, 4 for a source) with a catalog entry with columns
GoodDependency(dep) ==
    \/ dep[1] = "model" /\ Len(dep) = 3
          /\ \E e \in CatalogNodes : e.key = dep /\ e.columns # <<>>
    \/ dep[1] = "source" /\ Len(dep) = 4
          /\ \E e \in CatalogSources : e.key = dep /\ e.columns # <<>>

GoodDependencies(node) ==
    {node.depends_on[i] : i \in {j \in 1..Len(node.depends_on) : GoodDependency(node.depends_on[j])}}

EntryOfDependency(dep) ==
    CHOOSE e \in SectionOf(dep[1]) : e.key = dep

\* C12: the ReferenceMap of a node has exactly one key per well-formed dependency with
\* a catalog entry with columns, also when a dep-key is listed twice or two dep-keys
\* name the same database.schema.table, and the value of the key is that entry's
\* column list, each column once in catalog order.
C12_OneKeyPerDependency ==
    \A r \in 1..Len(data) :
        /\ Len(data[r].reference) = Cardinality(GoodDependencies(manifest_nodes[data[r].node]))
        /\ \A dep \in GoodDependencies(manifest_nodes[data[r].node]) :
              \E i \in 1..Len(data[r].reference) :
                  /\ data[r].reference[i].key
                        = DepFullName(dep, EntryOfDependency(dep), manifest_nodes[data[r].node])
                  /\ data[r].reference[i].cols = EntryOfDependency(dep).columns

\* C13: (database, schema, table) identifies one manifest node, so the unique_key
\* values database.schema.table.column are pairwise distinct across all records.
C13_UniqueKeysDistinct ==
    \A i, j \in 1..Len(data) : data[i].unique_key = data[j].unique_key => i = j

----------------------------------------------------------------------------
(* Order of the rows *)

\* C19: rows are emitted in projection order: for two projections p before q of the
\* outer select list, every row emitted for p precedes every row emitted for q.
C19_RowsInProjectionOrder ==
    \A i \in 1..Len(final_columns) : \A j \in 1..Len(final_columns) :
        final_columns[i].proj < final_columns[j].proj => i < j

\* a * that gave two rows, followed by a projection that gave a row of its own
C19_Witness ==
    /\ t_pc = "returned"
    /\ Len(ast.projs) = 2
    /\ Len(RowsOf(1)) >= 2
    /\ Len(RowsOf(2)) >= 1
    /\ final_columns = RowsOf(1) \o RowsOf(2)

----------------------------------------------------------------------------
(* Properties of the recursion of trace_column_lineage *)

\* C14: trace_column_lineage terminates for every finite cte_definitions, cyclic and
\* self-referring ones included, and no call, through replace_columns or through the
\* loop over the source columns, is made with a depth above max_depth.
C14_TraceTerminatesWithinDepth ==
    /\ o_pc \notin {"caught", "escaped"}
    /\ o_deepest <= max_depth

\* C18: in the per-row loops of the expander and of the tracer, a failure on one
\* row's query (parse failure, missing WITH, expansion error, error while tracing)
\* never leaves the loop, so every later row is still processed.  In the tracer, an
\* exception raised while the CTE definitions are built has left the loop of main.
C18_FailureStaysInLoop == o_pc # "escaped"

\* the query declares two CTEs that select a column from each other
MutualCtes ==
    /\ Len(ast.ctes) = 2
    /\ \A i \in 1..2 :
          /\ ast.ctes[i].kind = "Select"
          /\ ast.ctes[i].from = FromCte(ast.ctes[3 - i].alias)
          /\ Len(ast.ctes[i].projs) = 1
          /\ ast.ctes[i].projs[1].kind = "Column"

\* projection k is a column one of the two CTEs exposes, selected from that CTE
OverMutualCtes(k) ==
    /\ MutualCtes
    /\ ast.projs[k].kind = "Column"
    /\ \E i \in 1..2 :
          /\ ast.from = FromCte(ast.ctes[i].alias)
          /\ ast.projs[k].name = ast.ctes[i].projs[1].name

\* C15: for two CTEs whose columns reference each other in a cycle, tracing an outer
\* projection over them is stopped by the depth cap, with its diagnostic, and the row
\* emitted for the projection is the "Unknown" placeholder row.
C15_CycleGivesPlaceholder ==
    \A k \in 1..Len(ast.projs) :
        Handled(k) /\ OverMutualCtes(k) =>
            /\ Len(RowsOf(k)) = 1
            /\ IsPlaceholder(RowsOf(k)[1])

----------------------------------------------------------------------------
(* Properties of the expander on a CTE with an unknown source *)

\* the FROM target of CTE i is no key of the reference and no CTE declared before it
UnknownSource(q, i) ==
    /\ q.ctes[i].from.kind = "Table"
    /\ get_fully_qualified_name(q.ctes[i].from) \notin SchemaKeys(schema)
    /\ ~ \E j \in 1..(i - 1) : q.ctes[i].from = FromCte(q.ctes[j].alias)

\* every CTE selects from one table, and the source of at least one is unknown
OnlyUnknownSources(q) ==
    /\ q.kind = "Select"
    /\ \A i \in 1..Len(q.ctes) : q.ctes[i].from.kind = "Table"
    /\ \E i \in 1..Len(q.ctes) : UnknownSource(q, i)

\* C17: when the FROM target of a CTE is neither a key of the reference nor a CTE
\* defined before it, generate_expanded_sql skips that CTE only: the call still
\* returns, and the record gets an expanded SQL.
C17_UnknownSourceSkipsCte ==
    x_run = 1 /\ x_pc = "done" /\ OnlyUnknownSources(original_sql) => EXPANDED_SQL # NoSql

----------------------------------------------------------------------------
(* Properties of the expander followed by the tracer *)

\* the query is WITH c AS (SELECT * FROM T) SELECT * FROM c, T a key of the reference
StarOverStar ==
    /\ original_sql.kind = "Select"
    /\ Len(original_sql.ctes) = 1
    /\ original_sql.ctes[1].kind = "Select"
    /\ original_sql.ctes[1].projs = <<Star>>
    /\ original_sql.ctes[1].from.kind = "Table"
    /\ get_fully_qualified_name(original_sql.ctes[1].from) \in SchemaKeys(schema)
    /\ original_sql.from = FromCte(original_sql.ctes[1].alias)
    /\ original_sql.projs = <<Star>>

\* row i is the row of column c of the base table T, in upper case
RowOfColumn(row, c, T) ==
    /\ row.final = upper(c)
    /\ row.database = upper(T.catalog)
    /\ row.schema = upper(T.db)
    /\ row.table = Str(upper(T.name))

\* C16: for a query whose single CTE selects * from a base table T with reference
\* columns c1..cn and whose outer select is * from that CTE, the expander followed by
\* the tracer yields exactly n rows, one per ci in column order, each with Final
\* Column ci in upper case and source table T.
C16_StarOverStarRows ==
    StarOverStar /\ t_pc = "returned" =>
        /\ Len(final_columns) = Len(SchemaGet(schema, get_fully_qualified_name(original_sql.ctes[1].from)))
        /\ \A i \in 1..Len(final_columns) :
              RowOfColumn(final_columns[i],
                          SchemaGet(schema, get_fully_qualified_name(original_sql.ctes[1].from))[i],
                          original_sql.ctes[1].from)

----------------------------------------------------------------------------
(* Properties of merge_lineage *)

\* the entries of a lineage forest, at any depth of upstream_models
RECURSIVE AllEntries(_)
AllEntries(db_lineage) ==
    UNION { {db_lineage[i]} \cup AllEntries(db_lineage[i].upstream_models) :
                i \in 1..Len(db_lineage) }

\* the entries that match the column with one of its upstream tables
MatchingEntries(upstream_column, db_lineage) ==
    { e \in AllEntries(db_lineage) :
        \E k \in 1..Len(upstream_column.upstreamTables) :
            /\ lower(upstream_column.name) = lower(e.column)
            /\ lower(upstream_column.upstreamTables[k]) = lower(e.model) }

\* the upstream columns of the fields and of the fields nested in them
RECURSIVE ColumnsOfFields(_)
ColumnsOfFields(fields) ==
    UNION { {fields[i].upstreamColumns[j] : j \in 1..Len(fields[i].upstreamColumns)}
            \cup ColumnsOfFields(fields[i].upstreamFields) : i \in 1..Len(fields) }

\* the upstream columns of the calculations that reference the field
CalculationColumns(field) ==
    UNION { ColumnsOfFields(field.referencedByCalculations[k].upstreamFields) :
                k \in 1..Len(field.referencedByCalculations) }

\* the upstream columns of the sheet: those of its fields and those of the
\* calculations that reference its fields
SheetColumns ==
    ColumnsOfFields(sheet_upstreamFields)
    \cup UNION { CalculationColumns(sheet_upstreamFields[i]) :
                   i \in 1..Len(sheet_upstreamFields) }

\* C20: after merge_lineage an upstream column carries database_lineage if and only if
\* the lineage forest holds, at any depth, an entry that matches the column and one of
\* its upstream tables without regard to case; the entry attached is such an entry
C20_LineageAttachedIffMatch ==
    m_pc = "returned" =>
        \A c \in SheetColumns :
            /\ c.database_lineage # NoDbLineage <=> MatchingEntries(c, db_lineage_data) # {}
            /\ c.database_lineage # NoDbLineage =>
                   c.database_lineage \in MatchingEntries(c, db_lineage_data)

\* merge_lineage has returned; one column carries an entry that was found inside
\* upstream_models under names of another case, another column has upstream tables
\* and no match
C20_Witness ==
    /\ m_pc = "returned"
    /\ \E c \in SheetColumns :
           /\ c.database_lineage # NoDbLineage
           /\ c.database_lineage.column # c.name
           /\ \A i \in 1..Len(db_lineage_data) : db_lineage_data[i] # c.database_lineage
    /\ \E c \in SheetColumns :
           /\ c.upstreamTables # <<>>
           /\ c.database_lineage = NoDbLineage

----------------------------------------------------------------------------
(* Properties of replace_star_in_select and of the CTE scope *)

\* the names of the CTEs declared before the i-th
DeclaredBefore(q, i) == {q.ctes[j].alias : j \in 1..(i - 1)}

\* the columns of the FROM target of a CTE: those of the reference map, or those
\* recorded for an earlier CTE
SourceColumnsOf(cte, sch, cols) ==
    IF get_fully_qualified_name(cte.from) \in SchemaKeys(sch)
    THEN SchemaGet(sch, get_fully_qualified_name(cte.from))
    ELSE cols.cols[cte.from.name]

\* T.* with T the name of a CTE of the scope
IsCteStar(projection, scope) ==
    /\ projection.kind = "Column"
    /\ projection.name = "*"
    /\ \E T \in scope : projection.table = Str(T)

\* the reference expansion of one projection
ReferenceOf(projection, source_columns, scope, cols) ==
    IF projection.kind = "Star"
    THEN [i \in 1..Len(source_columns) |-> Identifier(source_columns[i])]
    ELSE IF IsCteStar(projection, scope)
    THEN [i \in 1..Len(cols.cols[projection.table[1][1]]) |->
             Column(cols.cols[projection.table[1][1]][i], projection.table)]
    ELSE <<projection>>

RECURSIVE ReferenceExpansion(_, _, _, _)
ReferenceExpansion(projs, source_columns, scope, cols) ==
    IF projs = <<>> THEN <<>>
    ELSE ReferenceOf(Head(projs), source_columns, scope, cols)
         \o ReferenceExpansion(Tail(projs), source_columns, scope, cols)

\* C21: the select list of every expanded CTE is the reference expansion of the list
\* as written: * gives the source columns of the FROM target, T.* gives T.col for the
\* columns of a CTE T in scope and stays verbatim otherwise, the rest is kept in order
C21_StarExpansionIsReference ==
    x_pc = "ctes" =>
        \A i \in 1..(x_i - 1) :
            parsed.ctes[i].projs =
                ReferenceExpansion(original_sql.ctes[i].projs,
                                   SourceColumnsOf(original_sql.ctes[i], schema, cte_columns),
                                   DeclaredBefore(original_sql, i), cte_columns)

\* C22: the CTEs are processed in declaration order: while the i-th CTE is expanded
\* the scope holds exactly the CTEs declared before it, a FROM that was resolved against
\* the scope names an earlier CTE, and the scope of a CTE is recorded before a later CTE
\* or the outer select is expanded; the tracer builds cte_definitions in the same order
C22_DeclarationOrder ==
    /\ x_pc \in {"ctes", "returned"} =>
           /\ cte_columns.order = [j \in 1..(x_i - 1) |-> parsed.ctes[j].alias]
           /\ DOMAIN cte_columns.cols = DeclaredBefore(parsed, x_i)
           /\ \A i \in 1..(x_i - 1) :
                  \/ get_fully_qualified_name(parsed.ctes[i].from) \in SchemaKeys(schema)
                  \/ parsed.ctes[i].from.name \in DeclaredBefore(parsed, i)
           /\ x_pc = "returned" => x_i = Len(parsed.ctes) + 1
    /\ t_pc = "ctes" =>
           DOMAIN cte_definitions = {Str(ast.ctes[j].alias) : j \in 1..(t_i - 1)}

\* the second CTE has been expanded from the columns recorded for the first, and the
\* tracer has stored the first CTE of the expanded text and not yet the second
C22_Witness ==
    /\ x_pc = "done"
    /\ Len(parsed.ctes) = 2
    /\ parsed.ctes[2].from.name \in DeclaredBefore(parsed, 2)
    /\ cte_columns.order = <<parsed.ctes[1].alias, parsed.ctes[2].alias>>
    /\ t_pc = "ctes"
    /\ t_i = 2
    /\ DOMAIN cte_definitions = {Str(ast.ctes[1].alias)}

\* C23: for every CTE that has been processed, the list recorded in the scope is as
\* long as the select list of the CTE after the expansion
C23_ScopeLengthIsProjections ==
    x_pc \in {"ctes", "returned"} =>
        \A i \in 1..(x_i - 1) :
            Len(cte_columns.cols[parsed.ctes[i].alias]) = Len(parsed.ctes[i].projs)

\* two CTEs are recorded: the first has a literal and the identifiers a star was
\* expanded to, the second the columns of a.* and a column, and both lists have grown
C23_Witness ==
    /\ x_pc = "returned"
    /\ Len(parsed.ctes) = 2
    /\ \E j \in 1..Len(parsed.ctes[1].projs) : parsed.ctes[1].projs[j].kind = "Literal"
    /\ \A i \in 1..2 :
           /\ Len(parsed.ctes[i].projs) > Len(original_sql.ctes[i].projs)
           /\ Len(cte_columns.cols[parsed.ctes[i].alias]) = Len(parsed.ctes[i].projs)

\* C24: the bare * of the outer select is expanded to the columns recorded for the
\* last declared CTE, whatever the outer FROM names
C24_OuterStarFromLastCte ==
    x_pc = "returned" =>
        parsed.projs =
            ReferenceExpansion(original_sql.projs,
                               cte_columns.cols[parsed.ctes[Len(parsed.ctes)].alias],
                               DeclaredBefore(parsed, x_i), cte_columns)

\* the outer select is SELECT * FROM the first of two CTEs whose recorded columns
\* differ, and its list is the columns of the second
C24_Witness ==
    /\ x_pc = "returned"
    /\ Len(parsed.ctes) = 2
    /\ original_sql.projs = <<Star>>
    /\ parsed.from.name = parsed.ctes[1].alias
    /\ cte_columns.cols[parsed.ctes[1].alias] # cte_columns.cols[parsed.ctes[2].alias]
    /\ parsed.projs = [i \in 1..Len(cte_columns.cols[parsed.ctes[2].alias]) |->
                          Identifier(cte_columns.cols[parsed.ctes[2].alias][i])]

----------------------------------------------------------------------------
(* Properties of extract_source_columns_and_transformation *)

\* the pieces of a returned source table
Pieces(table) == Range(table)

\* C25: for an expression that extract reconstructs and a real current_table, the
\* returned source table contains neither 'unknown' nor 'constant'
C25_NoMarkerInSourceTable ==
    e_pc = "returned" /\ e_node.kind \in Reconstructed =>
        Pieces(e_out.table) \cap {<<"unknown">>, <<"constant">>} = {}

\* C26: a call of extract, with the calls of trace_column_lineage it makes, leaves every
\* entry of cte_definitions as it was: same source_columns, source_table and
\* transformation
C26_DefinitionsUnchanged ==
    e_pc = "returned" => e_out.defs = e_defs

\* every table of a source table expression is named once
NamedOnce(table) == \A i \in 1..Len(table) : \A j \in 1..Len(table) : table[i] = table[j] => i = j

\* the tables of two operands without the markers, or current_table when none is left
RealTables(l, r, current_table) ==
    IF (Pieces(l.table) \cup Pieces(r.table)) \ {<<"unknown">>, <<"constant">>} = {}
    THEN Pieces(current_table)
    ELSE (Pieces(l.table) \cup Pieces(r.table)) \ {<<"unknown">>, <<"constant">>}

\* what extract returned for a binary operation, against what it returns for the operands
BinaryOf(out, node, l, r, current_table) ==
    /\ out.trans = Binary(node.kind, l.trans, r.trans)
    /\ out.cols = l.cols \cup r.cols
    /\ Pieces(out.table) = RealTables(l, r, current_table)
    /\ NamedOnce(out.table)

\* the right operand is extracted after the left one
AfterLeft(out, node, l, defs, current_table) ==
    BinaryOf(out, node, l,
             extract_source_columns_and_transformation(node.args[2], l.defs, current_table),
             current_table)

\* C27: for a binary operation extract returns a node of the same kind over the
\* rewritten operands, the union of the operands' source columns, and the union of the
\* operands' tables with each table named once
C27_BinaryUnion ==
    e_pc = "returned" /\ e_node.kind \in BinaryKinds =>
        AfterLeft(e_out, e_node,
                  extract_source_columns_and_transformation(e_node.args[1], e_defs, e_table),
                  e_defs, e_table)

\* AGG(DISTINCT c) over a column c
DistinctOverColumn(node) ==
    /\ node.kind \in AggKinds
    /\ node.args[1].kind = "Distinct"
    /\ node.args[1].args[1].kind = "Column"

\* the aggregate returned is still DISTINCT and has the source columns of its column
DistinctKept(out, node, column) ==
    /\ out.trans.kind = node.kind
    /\ out.trans.args[1].kind = "Distinct"
    /\ out.cols = column.cols

\* C28: for an aggregate with DISTINCT over a column, extract returns an aggregate that
\* is still DISTINCT and the source columns of the column under the aggregate
C28_DistinctAggregate ==
    e_pc = "returned" /\ DistinctOverColumn(e_node) =>
        DistinctKept(e_out, e_node,
                     extract_source_columns_and_transformation(e_node.args[1].args[1],
                                                               e_defs, e_table))

----------------------------------------------------------------------------
(* Properties of build_hierarchy *)

\* C29: build_hierarchy terminates for every lineage table, also one with a row that
\* is its own upstream or rows that are upstream of each other: no call ends in a
\* recursion that never returns
C29_HierarchyTerminates ==
    h_pc # "raised"

\* C30: the node built for a row has one upstream child for each source column the row
\* lists, for the column named, whatever the numbers of source tables and columns
C30_ChildPerSourceColumn ==
    \A i \in 1..Len(full_hierarchy) :
        /\ Len(full_hierarchy[i].upstream_models)
               = Len(current_row(df, df[i].NAME, df[i].COLUMN_NAME).UPSTREAM_COLUMN)
        /\ \A k \in 1..Len(full_hierarchy[i].upstream_models) :
               full_hierarchy[i].upstream_models[k].column
                   = extract_column_name(
                         current_row(df, df[i].NAME, df[i].COLUMN_NAME).UPSTREAM_COLUMN[k])

====
